---- MODULE Spec2Model ----
(***************************************************************************)
(* Verification model of the OpenTensorCore C models.                      *)
(*                                                                         *)
(*   src/tensorcore          cycle-accurate TensorCoreSim: PipeStage2,     *)
(*                           DotProductPipeline, the FP9/FP22 arithmetic   *)
(*                           and the non-pipelined reference_matmul        *)
(*   src/tensorcore_Cmodel   the batch-level TensorCoreUnit and its        *)
(*                           otc_* driver                                  *)
(*                                                                         *)
(* Packed floating-point values are naturals, handled with div/mod as the  *)
(* code handles them with shifts and masks.  A host double is modelled as  *)
(* an exact dyadic number (class, sign, significand, exponent): every      *)
(* product and sum the code forms from FP9/FP22 operands needs at most 34  *)
(* significant bits and is therefore exact in a 53-bit double.             *)
(***************************************************************************)
EXTENDS Integers, Sequences, FiniteSets, TLC

VARIABLES sim, hist, ps, psh, dev, drv, fp, dec

vars == <<sim, hist, ps, psh, dev, drv, fp, dec>>

-----------------------------------------------------------------------------
(* Shifts and masks on naturals (x & mask on a negative int is x mod 2^w). *)

Pow2(n) == 2^n

Shl(x, n) == x * Pow2(n)

Shr(x, n) == x \div Pow2(n)

Bit(x, n) == (x \div Pow2(n)) % 2

Low(x, n) == x % Pow2(n)

B2N(b) == IF b THEN 1 ELSE 0

Min(a, b) == IF a <= b THEN a ELSE b

Max(a, b) == IF a >= b THEN a ELSE b

(* enum RoundingMode *)
RNE == 0

RTZ == 1

RDN == 2

RUP == 3

RMM == 4

RoundingModes == {RNE, RTZ, RDN, RUP, RMM}

(* enum PrecisionType *)
PREC_FP4_E2M1 == 0

PREC_FP8_E4M3 == 1

PREC_FP8_E5M2 == 2

PREC_FP16 == 3

PREC_FP32 == 4

-----------------------------------------------------------------------------
(* fp_types.h: leading-zero counter and the rounding module                *)

RECURSIVE clzFrom(_, _)
clzFrom(val, i) ==
    IF i < 0 THEN 0
    ELSE IF Bit(val, i) = 1 THEN 0
    ELSE 1 + clzFrom(val, i - 1)

clz(val, width) == IF val = 0 THEN width ELSE clzFrom(val, width - 1)

(* do_rounding with the directed modes rounding away from zero even when   *)
(* nothing was discarded.                                                  *)
do_rounding_exact_up(inp, WIDTH, sign, roundin, stickyin, rm) ==
    LET in0     == Low(inp, WIDTH)
        inexact == roundin \/ stickyin
        r_up    == CASE rm = RNE -> roundin /\ (stickyin \/ in0 % 2 = 1)
                     [] rm = RTZ -> FALSE
                     [] rm = RDN -> sign
                     [] rm = RUP -> ~sign
                     [] rm = RMM -> roundin
                     [] OTHER    -> FALSE
        sum     == in0 + B2N(r_up)
    IN  [out |-> Low(sum, WIDTH), inexact |-> inexact,
         cout |-> Bit(sum, WIDTH) = 1, r_up |-> r_up]

do_rounding(inp, WIDTH, sign, roundin, stickyin, rm) ==
    LET in0     == Low(inp, WIDTH)
        inexact == roundin \/ stickyin
        r_up    == CASE rm = RNE -> roundin /\ (stickyin \/ in0 % 2 = 1)
                     [] rm = RTZ -> FALSE
                     [] rm = RDN -> sign /\ inexact
                     [] rm = RUP -> ~sign /\ inexact
                     [] rm = RMM -> roundin
                     [] OTHER    -> FALSE
        sum     == in0 + B2N(r_up)
    IN  [out |-> Low(sum, WIDTH), inexact |-> inexact,
         cout |-> Bit(sum, WIDTH) = 1, r_up |-> r_up]

-----------------------------------------------------------------------------
(* Host doubles as exact dyadic numbers: (-1)^s * sig * 2^exp.             *)

DNaN(s) == [k |-> "nan", s |-> s, sig |-> 0, exp |-> 0]

DInf(s) == [k |-> "inf", s |-> s, sig |-> 0, exp |-> 0]

DZero(s) == [k |-> "zero", s |-> s, sig |-> 0, exp |-> 0]

DFin(s, sig, exp) == [k |-> "fin", s |-> s, sig |-> sig, exp |-> exp]

RECURSIVE BitLen(_)
BitLen(x) == IF x = 0 THEN 0 ELSE 1 + BitLen(x \div 2)

(* IEEE-754 binary64 product; exact for the operands the code feeds it.    *)
(* An invalid operation yields the default NaN, whose sign bit is set on   *)
(* x86-64.                                                                 *)
DMul(x, y) ==
    LET s == (x.s + y.s) % 2
    IN  CASE x.k = "nan" -> x
          [] y.k = "nan" -> y
          [] (x.k = "inf" /\ y.k = "zero") \/ (x.k = "zero" /\ y.k = "inf") -> DNaN(1)
          [] x.k = "inf" \/ y.k = "inf" -> DInf(s)
          [] x.k = "zero" \/ y.k = "zero" -> DZero(s)
          [] OTHER -> DFin(s, x.sig * y.sig, x.exp + y.exp)

(* IEEE-754 binary64 sum under the default round-to-nearest mode.          *)
DAdd(x, y) ==
    CASE x.k = "nan" -> x
      [] y.k = "nan" -> y
      [] x.k = "inf" /\ y.k = "inf" -> IF x.s = y.s THEN x ELSE DNaN(1)
      [] x.k = "inf" -> x
      [] y.k = "inf" -> y
      [] x.k = "zero" /\ y.k = "zero" -> DZero(IF x.s = 1 /\ y.s = 1 THEN 1 ELSE 0)
      [] x.k = "zero" -> y
      [] y.k = "zero" -> x
      [] OTHER ->
           LET e  == Min(x.exp, y.exp)
               X  == Shl(x.sig, x.exp - e) * (IF x.s = 1 THEN -1 ELSE 1)
               Y  == Shl(y.sig, y.exp - e) * (IF y.s = 1 THEN -1 ELSE 1)
               r  == X + Y
           IN  IF r = 0 THEN DZero(0)
               ELSE IF r < 0 THEN DFin(1, -r, e)
               ELSE DFin(0, r, e)

fp9_to_double(fp9) ==
    LET s == Bit(fp9, 8)
        e == Low(Shr(fp9, 3), 5)
        m == Low(fp9, 3)
    IN  IF e = 31 THEN (IF m # 0 THEN DNaN(0) ELSE DInf(s))
        ELSE IF e = 0 /\ m = 0 THEN DZero(s)
        ELSE IF e = 0 THEN DFin(s, m, -17)
        ELSE DFin(s, 8 + m, e - 18)

fp22_to_double(fp22) ==
    LET s == Bit(fp22, 21)
        e == Low(Shr(fp22, 13), 8)
        m == Low(fp22, 13)
    IN  IF e = 255 THEN (IF m # 0 THEN DNaN(0) ELSE DInf(s))
        ELSE IF e = 0 /\ m = 0 THEN DZero(s)
        ELSE IF e = 0 THEN DFin(s, m, -139)
        ELSE DFin(s, 8192 + m, e - 140)

(* The top n bits of the 53-bit significand m_full of a finite non-zero    *)
(* double: m_full = sig << (53 - BitLen(sig)), so m_full >> (53 - n) is    *)
(* sig aligned to n bits.                                                  *)
TopBits(sig, n) ==
    LET L == BitLen(sig)
    IN  IF L <= n THEN Shl(sig, n - L) ELSE Shr(sig, L - n)

(* double_to_fp22: the code adds half an ulp to m_full and truncates.      *)
(* m_full + (1 << 38) carries into bit 53 iff the top 15 bits are all      *)
(* ones; (m_full >> 39) & 0x1FFF is then taken from the top 14 bits.       *)
double_to_fp22(v) ==
    LET s == v.s
    IN  CASE v.k = "nan"  -> Shl(s, 21) + Shl(255, 13) + 1
          [] v.k = "inf"  -> Shl(s, 21) + Shl(255, 13)
          [] v.k = "zero" -> Shl(s, 21)
          [] OTHER ->
               LET L            == BitLen(v.sig)
                   exp_unbiased == v.exp + L - 1
                   e_fp22       == exp_unbiased + 127
               IN  IF e_fp22 >= 255 THEN Shl(s, 21) + Shl(255, 13)
                   ELSE IF e_fp22 <= 0 THEN
                       LET shift == 39 + (1 - e_fp22)
                       IN  IF shift >= 64 THEN Shl(s, 21)
                           ELSE LET k == 53 - (shift - 1)
                                    t == IF k <= 0 THEN 0 ELSE TopBits(v.sig, k)
                                IN  Shl(s, 21) + ((t + 1) \div 2)
                   ELSE
                       LET t15   == TopBits(v.sig, 15) + 1
                           carry == t15 >= 32768
                           e2    == IF carry THEN e_fp22 + 1 ELSE e_fp22
                           m14   == IF carry THEN t15 \div 4 ELSE t15 \div 2
                       IN  IF e2 >= 255 THEN Shl(s, 21) + Shl(255, 13)
                           ELSE Shl(s, 21) + Shl(e2, 13) + Low(m14, 13)

(* double_to_fp9 is called by fp9_multiply and fp9_add but defined nowhere *)
(* in the sources; modelled from the narrowing rule of the specification:  *)
(* align to the 4-bit significand, round to nearest even, overflow to Inf, *)
(* gradual underflow, NaN to the quiet NaN with zero sign.                 *)
RoundShiftRNE(sig, sh) ==
    IF sh <= 0 THEN Shl(sig, -sh)
    ELSE LET q == Shr(sig, sh)
             g == Bit(sig, sh - 1) = 1
             t == Low(sig, sh - 1) # 0
         IN  q + B2N(g /\ (t \/ q % 2 = 1))

double_to_fp9(v) ==
    LET s == v.s
    IN  CASE v.k = "nan"  -> Shl(31, 3) + 4
          [] v.k = "inf"  -> Shl(s, 8) + Shl(31, 3)
          [] v.k = "zero" -> Shl(s, 8)
          [] OTHER ->
               LET L == BitLen(v.sig)
                   b == v.exp + L - 1 + 15
               IN  IF b >= 31 THEN Shl(s, 8) + Shl(31, 3)
                   ELSE IF b <= 0 THEN Shl(s, 8) + RoundShiftRNE(v.sig, -(v.exp + 17))
                   ELSE LET m4 == RoundShiftRNE(v.sig, L - 4)
                            b2 == IF m4 >= 16 THEN b + 1 ELSE b
                            m3 == IF m4 >= 16 THEN 0 ELSE m4 - 8
                        IN  IF b2 >= 31 THEN Shl(s, 8) + Shl(31, 3)
                            ELSE Shl(s, 8) + Shl(b2, 3) + m3

-----------------------------------------------------------------------------
(* fp_arith.h: the three-phase multiplier                                  *)

fmul_s1(a_bits, b_bits, EXPWIDTH, PRECISION, rm) ==
    LET PADDINGBITS == PRECISION + 2
        BIASINT     == Pow2(EXPWIDTH - 1) - 1
        MAXNORMEXP  == Pow2(EXPWIDTH) - 2
        a_exp_raw == Low(Shr(a_bits, PRECISION - 1), EXPWIDTH)
        b_exp_raw == Low(Shr(b_bits, PRECISION - 1), EXPWIDTH)
        a_mant == Low(a_bits, PRECISION - 1)
        b_mant == Low(b_bits, PRECISION - 1)
        a_sign == Bit(a_bits, EXPWIDTH + PRECISION - 1) = 1
        b_sign == Bit(b_bits, EXPWIDTH + PRECISION - 1) = 1
        a_exp_is_zero == a_exp_raw = 0
        b_exp_is_zero == b_exp_raw = 0
        a_exp_is_ones == a_exp_raw = Pow2(EXPWIDTH) - 1
        b_exp_is_ones == b_exp_raw = Pow2(EXPWIDTH) - 1
        a_sig_is_zero == a_mant = 0
        b_sig_is_zero == b_mant = 0
        a_is_inf  == a_exp_is_ones /\ a_sig_is_zero
        b_is_inf  == b_exp_is_ones /\ b_sig_is_zero
        a_is_zero == a_exp_is_zero /\ a_sig_is_zero
        b_is_zero == b_exp_is_zero /\ b_sig_is_zero
        a_is_nan  == a_exp_is_ones /\ ~a_sig_is_zero
        b_is_nan  == b_exp_is_ones /\ ~b_sig_is_zero
        a_is_snan == a_is_nan /\ Bit(a_mant, PRECISION - 2) = 0
        b_is_snan == b_is_nan /\ Bit(b_mant, PRECISION - 2) = 0
        raw_a_exp == IF a_exp_is_zero THEN 1 ELSE a_exp_raw
        raw_b_exp == IF b_exp_is_zero THEN 1 ELSE b_exp_raw
        raw_a_sig == (IF a_exp_is_zero THEN 0 ELSE Pow2(PRECISION - 1)) + a_mant
        raw_b_sig == (IF b_exp_is_zero THEN 0 ELSE Pow2(PRECISION - 1)) + b_mant
        exp_sum       == raw_a_exp + raw_b_exp
        prod_exp      == exp_sum - (BIASINT - (PADDINGBITS + 1))
        shift_lim_sub == exp_sum - (BIASINT - PADDINGBITS)
        prod_exp_uf   == shift_lim_sub < 0
        shift_lim     == IF prod_exp_uf THEN 0 ELSE shift_lim_sub
        prod_exp_ov   == exp_sum > MAXNORMEXP + BIASINT
        subnormal_sig == IF a_exp_is_zero THEN raw_a_sig ELSE raw_b_sig
        lzc_width     == PRECISION * 2 + 2
        lzc_val       == clz(subnormal_sig, lzc_width)
        exceed_lim    == shift_lim <= lzc_val
        shift_amt     == IF prod_exp_uf THEN 0
                         ELSE IF exceed_lim THEN shift_lim ELSE lzc_val
        exp_shifted   == prod_exp - shift_amt
        has_zero == a_is_zero \/ b_is_zero
        has_nan  == a_is_nan \/ b_is_nan
        has_snan == a_is_snan \/ b_is_snan
        has_inf  == a_is_inf \/ b_is_inf
        zero_mul_inf == has_zero /\ has_inf
    IN  [special_case_valid   |-> has_zero \/ has_nan \/ has_inf,
         special_case_nan     |-> has_nan \/ zero_mul_inf,
         special_case_inf     |-> has_inf,
         special_case_inv     |-> has_snan \/ zero_mul_inf,
         special_case_haszero |-> has_zero,
         early_overflow       |-> prod_exp_ov,
         prod_sign            |-> a_sign # b_sign,
         shift_amt            |-> shift_amt,
         exp_shifted          |-> exp_shifted,
         may_be_subnormal     |-> exceed_lim \/ prod_exp_uf,
         rm                   |-> rm]

fmul_s2(a_bits, b_bits, EXPWIDTH, PRECISION, s1) ==
    LET a_exp_raw == Low(Shr(a_bits, PRECISION - 1), EXPWIDTH)
        b_exp_raw == Low(Shr(b_bits, PRECISION - 1), EXPWIDTH)
        a_mant == Low(a_bits, PRECISION - 1)
        b_mant == Low(b_bits, PRECISION - 1)
        raw_a_sig == (IF a_exp_raw = 0 THEN 0 ELSE Pow2(PRECISION - 1)) + a_mant
        raw_b_sig == (IF b_exp_raw = 0 THEN 0 ELSE Pow2(PRECISION - 1)) + b_mant
    IN  [prod |-> raw_a_sig * raw_b_sig, s1 |-> s1]

fmul_s3(s2, EXPWIDTH, PRECISION) ==
    LET NEAR_INV == Pow2(EXPWIDTH) - 2
        INV      == Pow2(EXPWIDTH) - 1
        rm       == s2.s1.rm
        total_width      == PRECISION * 3 + 2
        sig_shifted_long == Shl(s2.prod, s2.s1.shift_amt)
        sig_shifted_raw  == Low(sig_shifted_long, total_width)
        top_set          == Bit(sig_shifted_raw, total_width - 1) = 1
        exp_is_subnormal == s2.s1.may_be_subnormal /\ ~top_set
        no_extra_shift   == top_set \/ exp_is_subnormal
        exp_pre_round == IF exp_is_subnormal THEN 0
                         ELSE IF no_extra_shift THEN s2.s1.exp_shifted
                         ELSE s2.s1.exp_shifted - 1
        sig_shifted == IF no_extra_shift THEN sig_shifted_raw
                       ELSE Shl(Low(sig_shifted_raw, total_width - 1), 1)
        raw_in_sign == s2.s1.prod_sign
        raw_in_exp  == exp_pre_round % Pow2(EXPWIDTH)
        top_bits    == Low(Shr(sig_shifted, PRECISION * 2), PRECISION + 2)
        sticky_low  == Low(sig_shifted, PRECISION + 2) # 0
        raw_in_sig  == Shl(top_bits, 1) + B2N(sticky_low)
        rounder1_in == Low(raw_in_sig, PRECISION + 2)
        r1_data     == Low(Shr(rounder1_in, 3), PRECISION - 1)
        r1_roundin  == Bit(rounder1_in, 2) = 1
        r1_stickyin == Low(rounder1_in, 2) # 0
        rr1 == do_rounding(r1_data, PRECISION - 1, raw_in_sign, r1_roundin, r1_stickyin, rm)
        exp_rounded == B2N(rr1.cout) + raw_in_exp
        common_of == (IF rr1.cout THEN raw_in_exp = NEAR_INV ELSE raw_in_exp = INV)
                     \/ s2.s1.early_overflow
        rmin == rm = RTZ \/ (rm = RDN /\ ~raw_in_sign) \/ (rm = RUP /\ raw_in_sign)
        of_exp  == IF rmin THEN NEAR_INV ELSE INV
        com_exp == IF common_of THEN of_exp ELSE exp_rounded
        com_sig == IF common_of THEN (IF rmin THEN Pow2(PRECISION - 1) - 1 ELSE 0)
                   ELSE rr1.out
        common_result == Shl(B2N(raw_in_sign), EXPWIDTH + PRECISION - 1)
                         + Shl(Low(com_exp, EXPWIDTH), PRECISION - 1)
                         + Low(com_sig, PRECISION - 1)
        sp_exp == IF s2.s1.special_case_nan THEN INV
                  ELSE IF s2.s1.special_case_inf THEN INV ELSE 0
        sp_sig == IF s2.s1.special_case_nan THEN Pow2(PRECISION - 2) ELSE 0
    IN  IF s2.s1.special_case_valid
        THEN Shl(B2N(raw_in_sign), EXPWIDTH + PRECISION - 1)
             + Shl(Low(sp_exp, EXPWIDTH), PRECISION - 1)
             + Low(sp_sig, PRECISION - 1)
        ELSE common_result

fp_multiply(a, b, EXPWIDTH, PRECISION, rm) ==
    fmul_s3(fmul_s2(a, b, EXPWIDTH, PRECISION, fmul_s1(a, b, EXPWIDTH, PRECISION, rm)),
            EXPWIDTH, PRECISION)

-----------------------------------------------------------------------------
(* fp_arith.h: the two-path adder                                          *)

far_path_compute(a_sign, a_exp, a_sig, b_sig, expdiff, effsub, small_add, EXPWIDTH, PRECISION, OUTPC) ==
    LET in_range   == expdiff < PRECISION + 3
        sticky0    == IF in_range THEN Low(b_sig, expdiff) # 0 ELSE b_sig # 0
        b_shifted  == IF in_range THEN Shr(b_sig, expdiff) ELSE 0
        sum        == IF effsub THEN a_sig - b_shifted ELSE a_sig + b_shifted
        carry      == ~effsub /\ Bit(sum, PRECISION) = 1
        sticky     == IF carry THEN sticky0 \/ sum % 2 = 1 ELSE sticky0
        sig_result == IF carry THEN Shr(sum, 1) ELSE sum
        exp        == IF carry THEN a_exp + 1 ELSE a_exp
        shift      == PRECISION - OUTPC - 2
        extra      == shift > 0 /\ Low(sig_result, shift) # 0
        top_sig    == IF shift > 0 THEN Shr(sig_result, shift)
                      ELSE Shl(sig_result, -shift)
    IN  [result_sign |-> a_sign,
         result_exp  |-> IF small_add THEN 0 ELSE exp,
         result_sig  |-> Shl(Low(top_sig, OUTPC + 2), 1) + B2N(sticky \/ extra)]

near_path_compute(a_sign, a_exp, a_sig, b_sign, b_sig, need_shift_b, EXPWIDTH, PRECISION, OUTPC) ==
    LET b_sig_aligned  == IF need_shift_b THEN Shr(b_sig, 1) ELSE b_sig
        a_lt_b         == a_sig < b_sig_aligned
        sig_diff       == IF a_lt_b THEN b_sig_aligned - a_sig ELSE a_sig - b_sig_aligned
        lzc_val        == clz(sig_diff, PRECISION + 1)
        sig_normalized == Shl(sig_diff, lzc_val)
        shift          == PRECISION - OUTPC - 2
    IN  [result_sign |-> IF a_lt_b THEN b_sign ELSE a_sign,
         result_exp  |-> Max(a_exp - lzc_val, 0),
         result_sig  |-> Low(IF shift > 0 THEN Shr(sig_normalized, shift)
                             ELSE Shl(sig_normalized, -shift), OUTPC + 3),
         sig_is_zero |-> sig_diff = 0,
         a_lt_b      |-> a_lt_b]

(* The fields fadd_s1 hands to fadd_s2, given the two near-path instances  *)
(* and the far-path result.                                                *)
fadd_s1_out(rm, fpo, np0, np1, near_sel, valid, iv, nan, inf_sign, small_add, far_mul_of, sel_far_path) ==
    [rm                    |-> rm,
     far_sign              |-> fpo.result_sign,
     far_exp               |-> fpo.result_exp,
     far_sig               |-> fpo.result_sig,
     near_sign             |-> IF near_sel THEN np1.result_sign ELSE np0.result_sign,
     near_exp              |-> IF near_sel THEN np1.result_exp ELSE np0.result_exp,
     near_sig              |-> IF near_sel THEN np1.result_sig ELSE np0.result_sig,
     near_sig_is_zero      |-> IF near_sel THEN np1.sig_is_zero ELSE np0.sig_is_zero,
     special_case_valid    |-> valid,
     special_case_iv       |-> iv,
     special_case_nan      |-> nan,
     special_case_inf_sign |-> inf_sign,
     small_add             |-> small_add,
     far_mul_of            |-> far_mul_of,
     sel_far_path          |-> sel_far_path]

fadd_s1(a_bits, b_bits, EXPWIDTH, PRECISION, OUTPC, rm) ==
    LET a_exp_raw     == Low(Shr(a_bits, PRECISION - 1), EXPWIDTH)
        b_exp_raw     == Low(Shr(b_bits, PRECISION - 1), EXPWIDTH)
        a_mant        == Low(a_bits, PRECISION - 1)
        b_mant        == Low(b_bits, PRECISION - 1)
        a_sign        == Bit(a_bits, EXPWIDTH + PRECISION - 1)
        b_sign        == Bit(b_bits, EXPWIDTH + PRECISION - 1)
        a_exp_is_zero == a_exp_raw = 0
        b_exp_is_zero == b_exp_raw = 0
        a_exp_is_ones == a_exp_raw = Pow2(EXPWIDTH) - 1
        b_exp_is_ones == b_exp_raw = Pow2(EXPWIDTH) - 1
        a_is_inf      == a_exp_is_ones /\ a_mant = 0
        b_is_inf      == b_exp_is_ones /\ b_mant = 0
        a_is_nan      == a_exp_is_ones /\ a_mant # 0
        b_is_nan      == b_exp_is_ones /\ b_mant # 0
        a_is_snan     == a_is_nan /\ Bit(a_mant, PRECISION - 2) = 0
        b_is_snan     == b_is_nan /\ Bit(b_mant, PRECISION - 2) = 0
        raw_a_exp     == IF a_exp_is_zero THEN 1 ELSE a_exp_raw
        raw_b_exp     == IF b_exp_is_zero THEN 1 ELSE b_exp_raw
        raw_a_sig     == (IF a_exp_is_zero THEN 0 ELSE Pow2(PRECISION - 1)) + a_mant
        raw_b_sig     == (IF b_exp_is_zero THEN 0 ELSE Pow2(PRECISION - 1)) + b_mant
        eff_sub       == a_sign # b_sign
        small_add     == a_exp_is_zero /\ b_exp_is_zero
        has_nan       == a_is_nan \/ b_is_nan
        inf_iv        == a_is_inf /\ b_is_inf /\ eff_sub
        need_swap     == raw_a_exp - raw_b_exp < 0
        ea_minus_eb   == IF need_swap THEN raw_b_exp - raw_a_exp ELSE raw_a_exp - raw_b_exp
        near_exp_neq  == raw_a_exp # raw_b_exp
        fpo == far_path_compute(IF need_swap THEN b_sign ELSE a_sign,
                                IF need_swap THEN raw_b_exp ELSE raw_a_exp,
                                IF need_swap THEN raw_b_sig ELSE raw_a_sig,
                                IF need_swap THEN raw_a_sig ELSE raw_b_sig,
                                ea_minus_eb, eff_sub, small_add,
                                EXPWIDTH, PRECISION, OUTPC)
        np0 == near_path_compute(a_sign, raw_a_exp, raw_a_sig, b_sign, raw_b_sig,
                                 near_exp_neq, EXPWIDTH, PRECISION, OUTPC)
        np1 == near_path_compute(b_sign, raw_b_exp, raw_b_sig, a_sign, raw_a_sig,
                                 near_exp_neq, EXPWIDTH, PRECISION, OUTPC)
    IN  fadd_s1_out(rm, fpo, np0, np1,
                    need_swap \/ (~near_exp_neq /\ np0.a_lt_b),
                    has_nan \/ a_is_inf \/ b_is_inf,
                    a_is_snan \/ b_is_snan \/ inf_iv,
                    has_nan \/ inf_iv,
                    IF a_is_inf THEN a_sign ELSE b_sign,
                    small_add,
                    b_exp_is_ones /\ ~eff_sub,
                    ~eff_sub \/ ea_minus_eb > 1)

(* The packed result of one path of fadd_s2 before overflow handling.      *)
fadd_pack(sign, exp_rounded, rr, EXPWIDTH, PRECISION) ==
    Shl(sign, EXPWIDTH + PRECISION - 1)
    + Shl(Low(exp_rounded, EXPWIDTH), PRECISION - 1)
    + Low(rr.out, PRECISION - 1)

fadd_round(sig, sign, rm, PRECISION) ==
    do_rounding(Low(Shr(Low(sig, PRECISION + 2), 3), PRECISION - 1), PRECISION - 1,
                sign = 1, Bit(sig, 2) = 1, Low(sig, 2) # 0, rm)

(* The special output of fadd_s2 without the test of special_case_nan: an  *)
(* invalid operation would come out as an infinity.                        *)
fadd_special_inf_only(s1, EXPWIDTH, PRECISION) ==
    Shl(Pow2(EXPWIDTH) - 1, PRECISION - 1)

(* fadd_s2, special output: the quiet NaN {0, all ones, 1, zeros} or the   *)
(* infinity, both packed with a zero sign bit.                             *)
fadd_special(s1, EXPWIDTH, PRECISION) ==
    IF s1.special_case_nan
    THEN Shl(Pow2(EXPWIDTH) - 1, PRECISION - 1) + Pow2(PRECISION - 2)
    ELSE Shl(Pow2(EXPWIDTH) - 1, PRECISION - 1)

fadd_s2(s1, EXPWIDTH, PRECISION) ==
    LET NEAR_INV == Pow2(EXPWIDTH) - 2
        INV      == Pow2(EXPWIDTH) - 1
        rm       == s1.rm
        far_rr   == fadd_round(s1.far_sig, s1.far_sign, rm, PRECISION)
        far_of   == \/ s1.far_exp = INV
                    \/ (far_rr.cout /\ s1.far_exp = NEAR_INV)
                    \/ s1.far_mul_of
        far_result == fadd_pack(s1.far_sign, B2N(far_rr.cout) + s1.far_exp, far_rr,
                                EXPWIDTH, PRECISION)
        near_is_zero == s1.near_exp = 0 /\ s1.near_sig_is_zero
        near_rr  == fadd_round(s1.near_sig, s1.near_sign, rm, PRECISION)
        near_exp_rounded == B2N(near_rr.cout) + s1.near_exp
        near_sign_out == B2N((s1.near_sign = 1 /\ ~near_is_zero)
                             \/ (rm = RDN /\ near_is_zero))
        near_of  == near_exp_rounded = INV
        near_result == fadd_pack(near_sign_out, near_exp_rounded, near_rr,
                                 EXPWIDTH, PRECISION)
        common_of == IF s1.sel_far_path THEN far_of ELSE near_of
        of_sign  == IF s1.sel_far_path THEN s1.far_sign ELSE s1.near_sign
        rmin     == rm = RTZ \/ (rm = RDN /\ of_sign = 0) \/ (rm = RUP /\ of_sign = 1)
    IN  IF s1.special_case_valid THEN fadd_special(s1, EXPWIDTH, PRECISION)
        ELSE IF common_of
        THEN Shl(of_sign, EXPWIDTH + PRECISION - 1)
             + Shl(IF rmin THEN NEAR_INV ELSE INV, PRECISION - 1)
             + (IF rmin THEN Pow2(PRECISION - 1) - 1 ELSE 0)
        ELSE IF s1.sel_far_path THEN far_result ELSE near_result

fp_add(a, b, EXPWIDTH, PRECISION, OUTPC, rm) ==
    fadd_s2(fadd_s1(a, b, EXPWIDTH, PRECISION, OUTPC, rm), EXPWIDTH, OUTPC)

(* Convenience wrappers: the FP9 and FP22 operations of the datapath go    *)
(* through host doubles and ignore rm.                                     *)
fp9_multiply(a, b, rm) == double_to_fp9(DMul(fp9_to_double(a), fp9_to_double(b)))

fp9_add(a, b, rm) == double_to_fp9(DAdd(fp9_to_double(a), fp9_to_double(b)))

fp22_add(a, b, rm) == double_to_fp22(DAdd(fp22_to_double(a), fp22_to_double(b)))

fp9_to_fp22(fp9) ==
    LET s == Bit(fp9, 8)
        e == Low(Shr(fp9, 3), 5)
        m == Low(fp9, 3)
    IN  IF e = 0 /\ m = 0 THEN Shl(s, 21)
        ELSE IF e = 31
             THEN Shl(s, 21) + Shl(255, 13) + (IF m # 0 THEN 4096 + Low(Shl(m, 10), 12) ELSE 0)
        ELSE IF e = 0
             THEN LET lz == clz(m, 3)
                      ne == -14 - lz + 127
                  IN  IF ne <= 0 THEN Shl(s, 21) + Low(Shl(m, 10 + 1 + lz), 13)
                      ELSE Shl(s, 21) + Shl(ne, 13)
                           + Low(Shl(Low(Shl(m, 1 + lz), 3), 10), 13)
        ELSE Shl(s, 21) + Shl(e + 112, 13) + Shl(m, 10)

-----------------------------------------------------------------------------
(* fp_types.h: input formats to FP9, widening to FP22, narrowing from FP22 *)

fp8_e4m3_to_fp9(fp8) ==
    LET s == Bit(fp8, 7)
        e == Low(Shr(fp8, 3), 4)
        m == Low(fp8, 3)
    IN  IF e = 15 THEN Shl(s, 8) + Shl(31, 3) + 4
        ELSE IF e = 0 /\ m = 0 THEN Shl(s, 8)
        ELSE IF e = 0
             THEN LET lz == clz(m, 3)
                      ne == 9 - lz
                  IN  IF ne <= 0 THEN Shl(s, 8) + Low(Shl(m, 1 + lz), 3)
                      ELSE Shl(s, 8) + Shl(ne, 3) + Low(Shl(m, 1 + lz), 3)
        ELSE IF e + 8 >= 31 THEN Shl(s, 8) + Shl(31, 3)
        ELSE Shl(s, 8) + Shl(e + 8, 3) + m

fp8_e5m2_to_fp9(fp8) ==
    LET s == Bit(fp8, 7)
        e == Low(Shr(fp8, 2), 5)
        m == Low(fp8, 2)
    IN  IF e = 31
        THEN (IF m # 0 THEN Shl(s, 8) + Shl(31, 3) + 4 ELSE Shl(s, 8) + Shl(31, 3))
        ELSE Shl(s, 8) + Shl(e, 3) + Shl(m, 1)

fp13_to_fp22(fp13) ==
    LET s == Bit(fp13, 12)
        e == Low(Shr(fp13, 7), 5)
        m == Low(fp13, 7)
    IN  IF e = 0 /\ m = 0 THEN Shl(s, 21)
        ELSE IF e = 31
             THEN Shl(s, 21) + Shl(255, 13) + (IF m # 0 THEN 4096 ELSE 0)
        ELSE IF e = 0
             THEN LET lz == clz(m, 7)
                      ne == -14 - lz + 127
                  IN  IF ne <= 0 THEN Shl(s, 21) + Low(Shl(m, 6 + 1 + lz), 13)
                      ELSE Shl(s, 21) + Shl(ne, 13)
                           + Low(Shl(Low(Shl(m, 1 + lz), 7), 6), 13)
        ELSE Shl(s, 21) + Shl(e + 112, 13) + Low(Shl(m, 6), 13)

fp16_to_fp22(fp16) ==
    LET s == Bit(fp16, 15)
        e == Low(Shr(fp16, 10), 5)
        m == Low(fp16, 10)
    IN  IF e = 0 /\ m = 0 THEN Shl(s, 21)
        ELSE IF e = 31
             THEN Shl(s, 21) + Shl(255, 13) + (IF m # 0 THEN 4096 ELSE 0)
        ELSE IF e = 0
             THEN LET lz == clz(m, 10)
                      ne == -14 - lz + 127
                  IN  IF ne <= 0 THEN Shl(s, 21) + Low(Shl(m, 3 + 1 + lz), 13)
                      ELSE Shl(s, 21) + Shl(ne, 13)
                           + Low(Shl(Low(Shl(m, 1 + lz), 10), 3), 13)
        ELSE Shl(s, 21) + Shl(e + 112, 13) + Low(Shl(m, 3), 13)

(* The rounding switch shared by the three narrowing conversions: o is the *)
(* kept mantissa, g/r/st the guard, round and sticky bits below it.        *)
narrow_up(rm, s, o, g, r, st) ==
    CASE rm = RNE -> g /\ (r \/ st \/ o % 2 = 1)
      [] rm = RTZ -> FALSE
      [] rm = RDN -> s = 1 /\ (g \/ r \/ st)
      [] rm = RUP -> s = 0 /\ (g \/ r \/ st)
      [] rm = RMM -> g
      [] OTHER    -> FALSE

(* Overflow of a format with infinities: the largest finite value when the *)
(* mode rounds towards zero for this sign, the infinity otherwise.         *)
(* Variant: the overflow policy looks at the mode and not at the sign.     *)
narrow_overflow_ignores_sign(rm, s, SIGN, EXPMAX, MANW) ==
    IF rm = RTZ \/ rm = RDN
    THEN Shl(s, SIGN) + Shl(EXPMAX - 1, MANW) + (Pow2(MANW) - 1)
    ELSE Shl(s, SIGN) + Shl(EXPMAX, MANW)

narrow_overflow(rm, s, SIGN, EXPMAX, MANW) ==
    IF rm = RTZ \/ (rm = RDN /\ s = 0) \/ (rm = RUP /\ s = 1)
    THEN Shl(s, SIGN) + Shl(EXPMAX - 1, MANW) + (Pow2(MANW) - 1)
    ELSE Shl(s, SIGN) + Shl(EXPMAX, MANW)

(* The body common to fp22_to_fp8_e5m2 (MANW = 2, DROP = 11) and           *)
(* fp22_to_fp16 (MANW = 10, DROP = 3), after the Inf/NaN and zero cases:   *)
(* ne = e - 112 is the rebiased exponent, DROP the number of mantissa bits *)
(* dropped, of which the top two are guard and round.                      *)
narrow_e5(s, ne, m, rm, SIGN, MANW, DROP) ==
    IF ne >= 31 THEN narrow_overflow(rm, s, SIGN, 31, MANW)
    ELSE IF ne <= 0
         THEN LET sh == 1 - ne
                  fm == Shr(8192 + m, sh)
                  o  == Low(Shr(fm, DROP), MANW)
                  up == narrow_up(rm, s, o, Bit(fm, DROP - 1) = 1,
                                  Bit(fm, DROP - 2) = 1, Low(fm, DROP - 2) # 0)
              IN  IF sh > 14 THEN Shl(s, SIGN)
                  ELSE IF up /\ o + 1 >= Pow2(MANW) THEN Shl(s, SIGN) + Shl(1, MANW)
                  ELSE Shl(s, SIGN) + Low(o + B2N(up), MANW)
    ELSE LET o  == Low(Shr(m, DROP), MANW)
             up == narrow_up(rm, s, o, Bit(m, DROP - 1) = 1,
                             Bit(m, DROP - 2) = 1, Low(m, DROP - 2) # 0)
         IN  IF up /\ o + 1 >= Pow2(MANW)
             THEN (IF ne + 1 >= 31 THEN narrow_overflow(rm, s, SIGN, 31, MANW)
                   ELSE Shl(s, SIGN) + Shl(ne + 1, MANW))
             ELSE Shl(s, SIGN) + Shl(ne, MANW) + Low(o + B2N(up), MANW)

fp22_to_fp8_e5m2(fp22, rm) ==
    LET s == Bit(fp22, 21)
        e == Low(Shr(fp22, 13), 8)
        m == Low(fp22, 13)
    IN  IF e = 255
        THEN (IF m # 0 THEN Shl(s, 7) + Shl(31, 2) + 1 ELSE Shl(s, 7) + Shl(31, 2))
        ELSE IF e = 0 THEN Shl(s, 7)
        ELSE narrow_e5(s, e - 112, m, rm, 7, 2, 11)

fp22_to_fp16(fp22, rm) ==
    LET s == Bit(fp22, 21)
        e == Low(Shr(fp22, 13), 8)
        m == Low(fp22, 13)
    IN  IF e = 255
        THEN (IF m # 0 THEN Shl(s, 15) + Shl(31, 10) + 512 ELSE Shl(s, 15) + Shl(31, 10))
        ELSE IF e = 0 THEN Shl(s, 15)
        ELSE narrow_e5(s, e - 112, m, rm, 15, 10, 3)

(* E4M3 has no infinity: overflow, Inf and NaN all give the pattern        *)
(* S.1110.111.                                                             *)
fp22_to_fp8_e4m3(fp22, rm) ==
    LET s   == Bit(fp22, 21)
        e   == Low(Shr(fp22, 13), 8)
        m   == Low(fp22, 13)
        ne  == e - 120
        max == Shl(s, 7) + Shl(14, 3) + 7
    IN  IF e = 255 THEN max
        ELSE IF e = 0 THEN Shl(s, 7)
        ELSE IF ne >= 15 THEN max
        ELSE IF ne <= 0
             THEN LET sh == 1 - ne
                      fm == Shr(8192 + m, sh)
                      o  == Low(Shr(fm, 10), 3)
                      up == narrow_up(rm, s, o, Bit(fm, 9) = 1, Bit(fm, 8) = 1,
                                      Low(fm, 8) # 0)
                  IN  IF sh > 14 THEN Shl(s, 7)
                      ELSE IF up /\ o + 1 >= 8 THEN Shl(s, 7) + Shl(1, 3)
                      ELSE Shl(s, 7) + Low(o + B2N(up), 3)
        ELSE LET o  == Low(Shr(m, 10), 3)
                 up == narrow_up(rm, s, o, Bit(m, 9) = 1, Bit(m, 8) = 1, Low(m, 8) # 0)
             IN  IF up /\ o + 1 >= 8
                 THEN (IF ne + 1 >= 15 THEN max ELSE Shl(s, 7) + Shl(ne + 1, 3))
                 ELSE Shl(s, 7) + Shl(ne, 3) + Low(o + B2N(up), 3)

fp4_to_fp9(fp4) ==
    LET s == Bit(fp4, 3)
        e == Low(Shr(fp4, 1), 2)
        m == Low(fp4, 1)
    IN  IF e = 3 /\ m = 1 THEN Shl(s, 8) + Shl(31, 3) + 4
        ELSE IF e = 3 /\ m = 0 THEN Shl(s, 8) + Shl(31, 3)
        ELSE IF e = 0 /\ m = 0 THEN Shl(s, 8)
        ELSE IF e = 0 THEN Shl(s, 8) + Shl(14, 3)
        ELSE Shl(s, 8) + Shl(e + 14, 3) + Shl(m, 2)

convert_c_to_fp22(raw_bits, prec) ==
    CASE prec = PREC_FP8_E4M3 -> fp9_to_fp22(fp8_e4m3_to_fp9(Low(raw_bits, 8)))
      [] prec = PREC_FP8_E5M2 -> fp9_to_fp22(fp8_e5m2_to_fp9(Low(raw_bits, 8)))
      [] prec = PREC_FP16     -> fp16_to_fp22(Low(raw_bits, 16))
      [] prec = PREC_FP4_E2M1 -> fp9_to_fp22(fp4_to_fp9(Low(raw_bits, 4)))
      [] OTHER                -> 0

-----------------------------------------------------------------------------
(* otc_fp.cpp: the decoders of the Cmodel.  FPConvert::fp8e4m3_to_f64 goes *)
(* through FPEmu::fp8e4m3_to_fp9 and SoftFloat::fp9_to_f64.                *)

fp_to_f64_generic(bits, sign_bit, exp_bits, mant_bits, exp_bias) ==
    LET s     == Bit(bits, sign_bit)
        e     == Low(Shr(bits, mant_bits), exp_bits)
        m     == Low(bits, mant_bits)
        e_max == Pow2(exp_bits) - 1
    IN  IF e = e_max THEN (IF m # 0 THEN DNaN(0) ELSE DInf(s))
        ELSE IF e = 0 /\ m = 0 THEN DZero(s)
        ELSE IF e = 0 THEN DFin(s, m, 1 - exp_bias - mant_bits)
        ELSE DFin(s, Pow2(mant_bits) + m, e - exp_bias - mant_bits)

SoftFloat_fp9_to_f64(bits9) == fp_to_f64_generic(Low(bits9, 9), 8, 5, 3, 15)

FPEmu_fp8e4m3_to_fp9(fp8) ==
    Shl(Shr(fp8, 7), 8) + Shl(Low(Shr(fp8, 3), 4), 3) + Low(fp8, 3)

FPConvert_fp8e4m3_to_f64(fp8) == SoftFloat_fp9_to_f64(FPEmu_fp8e4m3_to_fp9(fp8))

(* otc_fp.h, an earlier revision, defines FPConvert::fp8e4m3_to_f64 inline *)
(* and decodes the byte directly.                                          *)
FPConvert_fp8e4m3_to_f64_inline(fp8) ==
    LET s == Bit(fp8, 7)
        e == Low(Shr(fp8, 3), 4)
        m == Low(fp8, 3)
    IN  IF e = 15 /\ m = 7 THEN DNaN(0)
        ELSE IF e = 0 /\ m = 0 THEN DZero(s)
        ELSE IF e = 0 THEN DFin(s, m, 1 - 7 - 3)
        ELSE DFin(s, 8 + m, e - 7 - 3)

-----------------------------------------------------------------------------
(* tensor_core_sim.h: PipeStage2, the two-slot elastic register            *)

PipeStage2_in_ready(q, out_ready) == ~(~out_ready /\ q.valid1 /\ q.valid2)

PipeStage2_out_valid(q) == q.valid2

PipeStage2_out_data(q) == q.data2

(* tick(): compute1 is only ever applied to in_data and compute2 to data1, *)
(* so the caller passes the two results, compute1_in = compute1(in_data)   *)
(* and compute2_d1 = compute2(data1); each is looked at only when its      *)
(* register is enabled.  A null compute function is the identity.          *)
(* Variant: the enable of slot 1 reads out_ready with the wrong polarity,   *)
(* so a fully stalled register still latches a valid input.                 *)
PipeStage2_tick_latches_when_stalled(q, in_valid, out_ready, compute1_in, compute2_d1) ==
    LET reg_en1 == in_valid /\ ~(q.valid1 /\ q.valid2 /\ out_ready)
        reg_en2 == q.valid1 /\ ~(q.valid2 /\ ~out_ready)
        new_valid1 == IF ~(~out_ready /\ q.valid1 /\ q.valid2) THEN in_valid ELSE q.valid1
        new_valid2 == IF ~(~out_ready /\ q.valid2) THEN q.valid1 ELSE q.valid2
        new_data1 == IF reg_en1 THEN compute1_in ELSE q.data1
        new_data2 == IF reg_en2 THEN compute2_d1 ELSE q.data2
    IN  [q |-> [data1 |-> new_data1, data2 |-> new_data2,
                valid1 |-> new_valid1, valid2 |-> new_valid2],
         accepted |-> reg_en1]

(* Variant: slot 2 follows slot 1 on every tick, whether or not the         *)
(* consumer has taken what slot 2 holds.                                    *)
PipeStage2_tick_slot2_ignores_ready(q, in_valid, out_ready, compute1_in, compute2_d1) ==
    LET reg_en1 == in_valid /\ ~(q.valid1 /\ q.valid2 /\ ~out_ready)
        reg_en2 == q.valid1
        new_valid1 == IF ~(~out_ready /\ q.valid1 /\ q.valid2) THEN in_valid ELSE q.valid1
        new_valid2 == q.valid1
        new_data1 == IF reg_en1 THEN compute1_in ELSE q.data1
        new_data2 == IF reg_en2 THEN compute2_d1 ELSE q.data2
    IN  [q |-> [data1 |-> new_data1, data2 |-> new_data2,
                valid1 |-> new_valid1, valid2 |-> new_valid2],
         accepted |-> reg_en1]

PipeStage2_tick(q, in_valid, out_ready, compute1_in, compute2_d1) ==
    LET reg_en1 == in_valid /\ ~(q.valid1 /\ q.valid2 /\ ~out_ready)
        reg_en2 == q.valid1 /\ ~(q.valid2 /\ ~out_ready)
        new_valid1 == IF ~(~out_ready /\ q.valid1 /\ q.valid2) THEN in_valid ELSE q.valid1
        new_valid2 == IF ~(~out_ready /\ q.valid2) THEN q.valid1 ELSE q.valid2
        new_data1 == IF reg_en1 THEN compute1_in ELSE q.data1
        new_data2 == IF reg_en2 THEN compute2_d1 ELSE q.data2
    IN  [q |-> [data1 |-> new_data1, data2 |-> new_data2,
                valid1 |-> new_valid1, valid2 |-> new_valid2],
         accepted |-> reg_en1]

PipeStage2_reset(q) == [q EXCEPT !.valid1 = FALSE, !.valid2 = FALSE]

-----------------------------------------------------------------------------
(* tensor_core_sim.h: TensorCoreSim and its dot-product pipelines          *)

(* Array dimensions.  K is fixed by the shape of the adder tree; the model *)
(* instantiates an M x N corner of the 8 x 8 array of independent units.   *)
M == 2

N == 2

K == 8

PIPELINE_DEPTH == 11

(* The cycle budget of run_to_completion. *)
RunBudget == 100

Rows == 0 .. (M - 1)

Cols == 0 .. (N - 1)

(* A value of a field the constructor leaves uninitialised. *)
GarbageVals == {0, 341}

MulStage1Data(s1, a_bits, b_bits) == [s1 |-> s1, a_bits |-> a_bits, b_bits |-> b_bits]

GarbageMul(g) ==
    MulStage1Data([special_case_valid |-> FALSE, special_case_nan |-> FALSE,
                   special_case_inf |-> FALSE, special_case_inv |-> FALSE,
                   special_case_haszero |-> FALSE, early_overflow |-> FALSE,
                   prod_sign |-> FALSE, shift_amt |-> g, exp_shifted |-> g,
                   may_be_subnormal |-> FALSE, rm |-> RNE], g, g)

NewPipe(d) == [data1 |-> d, data2 |-> d, valid1 |-> FALSE, valid2 |-> FALSE]

(* DotProductPipeline as constructed: valid bits of the stages and         *)
(* conv_valid / conv_fp22 have initialisers, everything else holds g.      *)
NewDotProductPipeline(g, gb) ==
    [mul_pipe              |-> [k \in 0 .. 7 |-> NewPipe(GarbageMul(g))],
     mul_results           |-> [k \in 0 .. 7 |-> g],
     mul_results_valid     |-> [k \in 0 .. 7 |-> gb],
     add_L0                |-> [a \in 0 .. 3 |-> NewPipe(g)],
     add_L1                |-> [a \in 0 .. 1 |-> NewPipe(g)],
     add_L2                |-> NewPipe(g),
     final_add             |-> NewPipe(g),
     conv_valid            |-> FALSE,
     conv_fp22             |-> 0,
     rm                    |-> RNE,
     output_prec           |-> PREC_FP8_E4M3,
     add_L0_a              |-> [a \in 0 .. 3 |-> g],
     add_L0_b              |-> [a \in 0 .. 3 |-> g],
     add_L0_input_valid    |-> [a \in 0 .. 3 |-> gb],
     add_L1_a              |-> [a \in 0 .. 1 |-> g],
     add_L1_b              |-> [a \in 0 .. 1 |-> g],
     add_L1_input_valid    |-> [a \in 0 .. 1 |-> gb],
     add_L2_a              |-> g,
     add_L2_b              |-> g,
     add_L2_input_valid    |-> gb,
     final_add_a           |-> g,
     final_add_b           |-> g,
     final_add_input_valid |-> gb]

(* Variant: reset that forgets the conversion register. *)
DotProductPipeline_reset_keeps_conv(p) ==
    [p EXCEPT !.mul_pipe = [k \in 0 .. 7 |-> PipeStage2_reset(p.mul_pipe[k])],
              !.mul_results_valid = [k \in 0 .. 7 |-> FALSE],
              !.add_L0 = [a \in 0 .. 3 |-> PipeStage2_reset(p.add_L0[a])],
              !.add_L0_input_valid = [a \in 0 .. 3 |-> FALSE],
              !.add_L1 = [a \in 0 .. 1 |-> PipeStage2_reset(p.add_L1[a])],
              !.add_L1_input_valid = [a \in 0 .. 1 |-> FALSE],
              !.add_L2 = PipeStage2_reset(p.add_L2),
              !.add_L2_input_valid = FALSE,
              !.final_add = PipeStage2_reset(p.final_add),
              !.final_add_input_valid = FALSE]

DotProductPipeline_reset(p) ==
    [p EXCEPT !.mul_pipe = [k \in 0 .. 7 |-> PipeStage2_reset(p.mul_pipe[k])],
              !.mul_results_valid = [k \in 0 .. 7 |-> FALSE],
              !.add_L0 = [a \in 0 .. 3 |-> PipeStage2_reset(p.add_L0[a])],
              !.add_L0_input_valid = [a \in 0 .. 3 |-> FALSE],
              !.add_L1 = [a \in 0 .. 1 |-> PipeStage2_reset(p.add_L1[a])],
              !.add_L1_input_valid = [a \in 0 .. 1 |-> FALSE],
              !.add_L2 = PipeStage2_reset(p.add_L2),
              !.add_L2_input_valid = FALSE,
              !.final_add = PipeStage2_reset(p.final_add),
              !.final_add_input_valid = FALSE,
              !.conv_valid = FALSE]

(* TensorCoreSim as constructed. *)
NewTensorCoreSim(g, gb) ==
    [dp             |-> [i \in Rows |-> [j \in Cols |-> NewDotProductPipeline(g, gb)]],
     input_prec     |-> PREC_FP8_E4M3,
     output_prec    |-> PREC_FP8_E4M3,
     rm             |-> RNE,
     a_fp9          |-> [i \in Rows |-> [k \in 0 .. (K - 1) |-> g]],
     b_fp9          |-> [k \in 0 .. (K - 1) |-> [j \in Cols |-> g]],
     c_fp22         |-> [i \in Rows |-> [j \in Cols |-> g]],
     d_fp22         |-> [i \in Rows |-> [j \in Cols |-> g]],
     d_valid        |-> [i \in Rows |-> [j \in Cols |-> gb]],
     input_loaded   |-> FALSE,
     output_ready   |-> TRUE,
     cycle_count    |-> 0,
     total_cycles   |-> 0,
     jobs_completed |-> 0]

reset(st) ==
    [st EXCEPT !.dp = [i \in Rows |-> [j \in Cols |-> DotProductPipeline_reset(st.dp[i][j])]],
               !.d_valid = [i \in Rows |-> [j \in Cols |-> FALSE]],
               !.input_loaded = FALSE,
               !.cycle_count = 0,
               !.total_cycles = 0,
               !.jobs_completed = 0]

load_inputs(st, a, b, c, prec, r) ==
    [st EXCEPT !.input_prec = prec,
               !.output_prec = prec,
               !.rm = r,
               !.a_fp9 = [i \in Rows |-> [k \in 0 .. (K - 1) |-> a[i][k]]],
               !.b_fp9 = [k \in 0 .. (K - 1) |-> [j \in Cols |-> b[k][j]]],
               !.c_fp22 = [i \in Rows |-> [j \in Cols |-> c[i][j]]],
               !.d_valid = [i \in Rows |-> [j \in Cols |-> FALSE]],
               !.input_loaded = TRUE]

(* tick_dot_product works on dp[i][j] in place, statement after statement. *)
(* Each statement group below is an operator from simulator state to        *)
(* simulator state; Now(st) makes the evaluator finish computing st before  *)
(* the next statement group starts.  It is always TRUE.                     *)
Now(st) == st.cycle_count = st.cycle_count

(* Stage 11 variants: latching from slot 1 of the final adder, and          *)
(* overwriting a held result.                                               *)
Stage11_from_slot1(st, i, j) ==
    IF st.dp[i][j].final_add.valid1 /\ ~st.dp[i][j].conv_valid
    THEN [st EXCEPT !.dp[i][j].conv_valid = TRUE,
                    !.dp[i][j].conv_fp22 = st.dp[i][j].final_add.data1,
                    !.d_fp22[i][j] = st.dp[i][j].final_add.data1,
                    !.d_valid[i][j] = TRUE]
    ELSE st

Stage11_overwrite(st, i, j) ==
    IF PipeStage2_out_valid(st.dp[i][j].final_add)
    THEN [st EXCEPT !.dp[i][j].conv_valid = TRUE,
                    !.dp[i][j].conv_fp22 = PipeStage2_out_data(st.dp[i][j].final_add),
                    !.d_fp22[i][j] = PipeStage2_out_data(st.dp[i][j].final_add),
                    !.d_valid[i][j] = TRUE]
    ELSE st

(* Stage 11: output conversion register. *)
Stage11(st, i, j) ==
    IF PipeStage2_out_valid(st.dp[i][j].final_add) /\ ~st.dp[i][j].conv_valid
    THEN [st EXCEPT !.dp[i][j].conv_valid = TRUE,
                    !.dp[i][j].conv_fp22 = PipeStage2_out_data(st.dp[i][j].final_add),
                    !.d_fp22[i][j] = PipeStage2_out_data(st.dp[i][j].final_add),
                    !.d_valid[i][j] = TRUE]
    ELSE st

(* Stages 9-10: final FP22 add of the tree result and the C bias. *)
FinalLatch(st, i, j) ==
    IF PipeStage2_out_valid(st.dp[i][j].add_L2) /\ ~st.dp[i][j].final_add_input_valid
    THEN [st EXCEPT !.dp[i][j].final_add_a =
                        fp9_to_fp22(PipeStage2_out_data(st.dp[i][j].add_L2)),
                    !.dp[i][j].final_add_b = st.c_fp22[i][j],
                    !.dp[i][j].final_add_input_valid = TRUE]
    ELSE st

FinalTick(st, i, j, final_out_ready) ==
    [st EXCEPT !.dp[i][j].final_add =
        PipeStage2_tick(@, st.dp[i][j].final_add_input_valid, final_out_ready,
                        st.dp[i][j].final_add_a,
                        fp22_add(@.data1, st.dp[i][j].final_add_b, st.rm)).q]

FinalRelease(st, i, j, final_out_ready) ==
    IF PipeStage2_in_ready(st.dp[i][j].final_add, final_out_ready)
       /\ st.dp[i][j].final_add_input_valid
    THEN [st EXCEPT !.dp[i][j].final_add_input_valid = FALSE]
    ELSE st

StageFinal(st, i, j, final_out_ready) ==
    FinalRelease(FinalTick(FinalLatch(st, i, j), i, j, final_out_ready),
                 i, j, final_out_ready)

(* Stages 7-8: adder tree level 2. *)
L2Latch(st, i, j) ==
    IF PipeStage2_out_valid(st.dp[i][j].add_L1[0])
       /\ PipeStage2_out_valid(st.dp[i][j].add_L1[1])
       /\ ~st.dp[i][j].add_L2_input_valid
    THEN [st EXCEPT !.dp[i][j].add_L2_a = PipeStage2_out_data(st.dp[i][j].add_L1[0]),
                    !.dp[i][j].add_L2_b = PipeStage2_out_data(st.dp[i][j].add_L1[1]),
                    !.dp[i][j].add_L2_input_valid = TRUE]
    ELSE st

L2Tick(st, i, j, l2_out_ready) ==
    [st EXCEPT !.dp[i][j].add_L2 =
        PipeStage2_tick(@, st.dp[i][j].add_L2_input_valid, l2_out_ready,
                        st.dp[i][j].add_L2_a,
                        fp9_add(@.data1, st.dp[i][j].add_L2_b, st.rm)).q]

L2Release(st, i, j, l2_out_ready) ==
    IF PipeStage2_in_ready(st.dp[i][j].add_L2, l2_out_ready)
       /\ st.dp[i][j].add_L2_input_valid
    THEN [st EXCEPT !.dp[i][j].add_L2_input_valid = FALSE]
    ELSE st

StageL2(st, i, j, l2_out_ready) ==
    L2Release(L2Tick(L2Latch(st, i, j), i, j, l2_out_ready), i, j, l2_out_ready)

(* Stages 5-6: one iteration of the level-1 loop, sources 2a and 2a+1. *)
L1Latch(st, i, j, a) ==
    IF PipeStage2_out_valid(st.dp[i][j].add_L0[a * 2])
       /\ PipeStage2_out_valid(st.dp[i][j].add_L0[a * 2 + 1])
       /\ ~st.dp[i][j].add_L1_input_valid[a]
    THEN [st EXCEPT !.dp[i][j].add_L1_a[a] = PipeStage2_out_data(st.dp[i][j].add_L0[a * 2]),
                    !.dp[i][j].add_L1_b[a] =
                        PipeStage2_out_data(st.dp[i][j].add_L0[a * 2 + 1]),
                    !.dp[i][j].add_L1_input_valid[a] = TRUE]
    ELSE st

L1Tick(st, i, j, a, l1_out_ready) ==
    [st EXCEPT !.dp[i][j].add_L1[a] =
        PipeStage2_tick(@, st.dp[i][j].add_L1_input_valid[a], l1_out_ready[a],
                        st.dp[i][j].add_L1_a[a],
                        fp9_add(@.data1, st.dp[i][j].add_L1_b[a], st.rm)).q]

L1Release(st, i, j, a, l1_out_ready) ==
    IF PipeStage2_in_ready(st.dp[i][j].add_L1[a], l1_out_ready[a])
       /\ st.dp[i][j].add_L1_input_valid[a]
    THEN [st EXCEPT !.dp[i][j].add_L1_input_valid[a] = FALSE]
    ELSE st

StageL1(st, i, j, a, l1_out_ready) ==
    L1Release(L1Tick(L1Latch(st, i, j, a), i, j, a, l1_out_ready), i, j, a, l1_out_ready)

(* Stages 3-4: one iteration of the level-0 loop, sources a and a+4. *)
L0Latch(st, i, j, a) ==
    IF st.dp[i][j].mul_results_valid[a] /\ st.dp[i][j].mul_results_valid[a + 4]
       /\ ~st.dp[i][j].add_L0_input_valid[a]
    THEN [st EXCEPT !.dp[i][j].add_L0_a[a] = st.dp[i][j].mul_results[a],
                    !.dp[i][j].add_L0_b[a] = st.dp[i][j].mul_results[a + 4],
                    !.dp[i][j].add_L0_input_valid[a] = TRUE]
    ELSE st

L0Tick(st, i, j, a, l0_out_ready) ==
    [st EXCEPT !.dp[i][j].add_L0[a] =
        PipeStage2_tick(@, st.dp[i][j].add_L0_input_valid[a], l0_out_ready[a],
                        st.dp[i][j].add_L0_a[a],
                        fp9_add(@.data1, st.dp[i][j].add_L0_b[a], st.rm)).q]

(* Variant: the release frees only the first of the two product buffers.   *)
L0Release_first_source_only(st, i, j, a, l0_out_ready) ==
    IF PipeStage2_in_ready(st.dp[i][j].add_L0[a], l0_out_ready[a])
       /\ st.dp[i][j].add_L0_input_valid[a]
    THEN [st EXCEPT !.dp[i][j].add_L0_input_valid[a] = FALSE,
                    !.dp[i][j].mul_results_valid[a] = FALSE]
    ELSE st

L0Release(st, i, j, a, l0_out_ready) ==
    IF PipeStage2_in_ready(st.dp[i][j].add_L0[a], l0_out_ready[a])
       /\ st.dp[i][j].add_L0_input_valid[a]
    THEN [st EXCEPT !.dp[i][j].add_L0_input_valid[a] = FALSE,
                    !.dp[i][j].mul_results_valid[a] = FALSE,
                    !.dp[i][j].mul_results_valid[a + 4] = FALSE]
    ELSE st

StageL0(st, i, j, a, l0_out_ready) ==
    L0Release(L0Tick(L0Latch(st, i, j, a), i, j, a, l0_out_ready), i, j, a, l0_out_ready)

(* Stages 1-2: one iteration of the multiplier loop.  The second register  *)
(* carries the product in s1.shift_amt.                                    *)
MulStage2(in) ==
    [in EXCEPT !.s1.shift_amt = fmul_s3(fmul_s2(in.a_bits, in.b_bits, 5, 4, in.s1), 5, 4)]

(* Variant: every unit multiplies by column 0 of B. *)
MulTick_column0(st, i, j, k) ==
    [st EXCEPT !.dp[i][j].mul_pipe[k] =
        PipeStage2_tick(@, st.input_loaded /\ ~st.dp[i][j].mul_results_valid[k],
                        ~st.dp[i][j].mul_results_valid[k],
                        MulStage1Data(fmul_s1(st.a_fp9[i][k], st.b_fp9[k][0], 5, 4, st.rm),
                                      st.a_fp9[i][k], st.b_fp9[k][0]),
                        MulStage2(@.data1)).q]

MulTick(st, i, j, k) ==
    [st EXCEPT !.dp[i][j].mul_pipe[k] =
        PipeStage2_tick(@, st.input_loaded /\ ~st.dp[i][j].mul_results_valid[k],
                        ~st.dp[i][j].mul_results_valid[k],
                        MulStage1Data(fmul_s1(st.a_fp9[i][k], st.b_fp9[k][j], 5, 4, st.rm),
                                      st.a_fp9[i][k], st.b_fp9[k][j]),
                        MulStage2(@.data1)).q]

MulCapture(st, i, j, k) ==
    IF PipeStage2_out_valid(st.dp[i][j].mul_pipe[k]) /\ ~st.dp[i][j].mul_results_valid[k]
    THEN [st EXCEPT !.dp[i][j].mul_results[k] =
                        Low(PipeStage2_out_data(st.dp[i][j].mul_pipe[k]).s1.shift_amt, 9),
                    !.dp[i][j].mul_results_valid[k] = TRUE]
    ELSE st

StageMul(st, i, j, k) == MulCapture(MulTick(st, i, j, k), i, j, k)

(* for (a = lo; a < hi; a++) body *)
RECURSIVE ForL1(_, _, _, _, _, _)
ForL1(st, i, j, a, hi, rdy) ==
    IF Now(st) /\ a < hi THEN ForL1(StageL1(st, i, j, a, rdy), i, j, a + 1, hi, rdy)
    ELSE st

RECURSIVE ForL0(_, _, _, _, _, _)
ForL0(st, i, j, a, hi, rdy) ==
    IF Now(st) /\ a < hi THEN ForL0(StageL0(st, i, j, a, rdy), i, j, a + 1, hi, rdy)
    ELSE st

RECURSIVE ForMul(_, _, _, _, _)
ForMul(st, i, j, k, hi) ==
    IF Now(st) /\ k < hi THEN ForMul(StageMul(st, i, j, k), i, j, k + 1, hi)
    ELSE st

(* Variant: the multiplier loop ahead of the level-0 loop (forward order). *)
FromL0_mul_first(st, i, j, l1_out_ready) ==
    ForL0(ForMul(st, i, j, 0, K), i, j, 0, 4,
          [a \in 0 .. 3 |->
             IF a < 2
             THEN PipeStage2_in_ready(st.dp[i][j].add_L1[0], l1_out_ready[0])
             ELSE PipeStage2_in_ready(st.dp[i][j].add_L1[1], l1_out_ready[1])])

(* tick_dot_product from the level-0 loop on: l0_out_ready[0..1] follow    *)
(* add_L1[0], l0_out_ready[2..3] follow add_L1[1].                         *)
FromL0(st, i, j, l1_out_ready) ==
    ForMul(ForL0(st, i, j, 0, 4,
                 [a \in 0 .. 3 |->
                    IF a < 2
                    THEN PipeStage2_in_ready(st.dp[i][j].add_L1[0], l1_out_ready[0])
                    ELSE PipeStage2_in_ready(st.dp[i][j].add_L1[1], l1_out_ready[1])]),
           i, j, 0, K)

(* ... from the level-1 loop on *)
FromL1(st, i, j, l2_out_ready) ==
    FromL0(ForL1(st, i, j, 0, 2,
                 [a \in 0 .. 1 |-> PipeStage2_in_ready(st.dp[i][j].add_L2, l2_out_ready)]),
           i, j,
           [a \in 0 .. 1 |-> PipeStage2_in_ready(st.dp[i][j].add_L2, l2_out_ready)])

(* ... from level 2 on *)
FromL2(st, i, j, final_out_ready) ==
    FromL1(StageL2(st, i, j, PipeStage2_in_ready(st.dp[i][j].final_add, final_out_ready)),
           i, j, PipeStage2_in_ready(st.dp[i][j].final_add, final_out_ready))

(* ... from the final add on; conv_out_ready is the constant true *)
FromFinal(st, i, j) ==
    FromL2(StageFinal(st, i, j, ~st.dp[i][j].conv_valid \/ TRUE), i, j,
           ~st.dp[i][j].conv_valid \/ TRUE)

tick_dot_product(st, i, j) ==
    FromFinal(Stage11([st EXCEPT !.dp[i][j].rm = st.rm,
                                 !.dp[i][j].output_prec = st.output_prec], i, j), i, j)

(* The units in the order tick() steps them: i outer, j inner. *)
RowMajor == [n \in 1 .. (M * N) |-> <<(n - 1) \div N, (n - 1) % N>>]

RECURSIVE StepUnits(_, _, _)
StepUnits(st, order, n) ==
    IF Now(st) /\ n <= Len(order)
    THEN StepUnits(tick_dot_product(st, order[n][1], order[n][2]), order, n + 1)
    ELSE st

tick_in_order(st, order) ==
    StepUnits([st EXCEPT !.cycle_count = st.cycle_count + 1], order, 1)

tick(st) == tick_in_order(st, RowMajor)

AllDone(st) == \A i \in Rows : \A j \in Cols : st.d_valid[i][j]

(* `while (!all_done && cycles < 100) { tick(); cycles++; all_done = ... }` *)
(* all_done starts false and is recomputed from d_valid at the end of      *)
(* every iteration, so at the loop test it is AllDone(st) once an           *)
(* iteration has run.                                                       *)
RECURSIVE run_loop(_, _)
run_loop(st, cycles) ==
    IF Now(st) /\ ~(cycles > 0 /\ AllDone(st)) /\ cycles < RunBudget
    THEN run_loop(tick(st), cycles + 1)
    ELSE [st |-> st, cycles |-> cycles]

run_exit(r) ==
    [st  |-> [r.st EXCEPT !.total_cycles = r.st.total_cycles + r.cycles,
                          !.jobs_completed = r.st.jobs_completed + 1,
                          !.input_loaded = FALSE],
     ret |-> r.cycles]

run_to_completion(st) ==
    IF ~st.input_loaded THEN [st |-> st, ret |-> 0]
    ELSE run_exit(run_loop(st, 0))

(* reference_matmul, one output cell. *)
reference_cell(a_fp9, b_fp9, c_fp22, i, j, rm) ==
    LET products == [k \in 0 .. 7 |-> fp9_multiply(a_fp9[i][k], b_fp9[k][j], rm)]
        sums_l0  == [a \in 0 .. 3 |-> fp9_add(products[a], products[a + 4], rm)]
        sums_l1  == [a \in 0 .. 1 |-> fp9_add(sums_l0[2 * a], sums_l0[2 * a + 1], rm)]
        sum_l2   == fp9_add(sums_l1[0], sums_l1[1], rm)
        sum_fp22 == fp9_to_fp22(sum_l2)
    IN  fp22_add(sum_fp22, c_fp22[i][j], rm)

reference_matmul(a_fp9, b_fp9, c_fp22, rm) ==
    [i \in Rows |-> [j \in Cols |-> reference_cell(a_fp9, b_fp9, c_fp22, i, j, rm)]]

-----------------------------------------------------------------------------
(* Jobs offered to the simulator: a finite family of (A, B, C, rm).        *)
(* Operand exponents stay within a few binades so that every aligned       *)
(* significand of a host-double sum fits a 32-bit integer.                 *)

(* FP9: 1.0, 1.125, 1.875, -1.375, 2.0, 0.40625, +0, subnormal 3*2^-17,    *)
(* -0.5625                                                                 *)
Pool9 == <<120, 121, 127, 379, 128, 109, 0, 3, 369>>

(* FP22: +0, 1.0, -2.5, 0.75 *)
Pool22 == <<0, 1040384, 3147776, 1036288>>

NumSeeds == 2

(* Budgets of calls per behaviour.  A behaviour is driven either cycle by  *)
(* cycle (tick() called directly, as the trace tests do), or job by job    *)
(* (run_to_completion(), as the matmul tests do, with at most JobTicks     *)
(* direct ticks in between), or through one job with at most IdleTicks     *)
(* direct ticks before and after its run.                                  *)
MaxTicks == 12

MaxLoads == 2

MaxResets == 2

MaxRuns == 2

JobTicks == 0

IdleTicks == 1

Budgets ==
    { [ticks |-> MaxTicks, loads |-> MaxLoads, resets |-> 1, runs |-> 0],
      [ticks |-> JobTicks, loads |-> MaxLoads, resets |-> MaxResets, runs |-> MaxRuns],
      [ticks |-> IdleTicks, loads |-> 1, resets |-> 1, runs |-> 1] }

JobSeeds == 0 .. (NumSeeds - 1)

JobA(seed) == [i \in Rows |-> [k \in 0 .. (K - 1) |->
                  Pool9[((4 * seed + 5 * i + k) % Len(Pool9)) + 1]]]

JobB(seed) == [k \in 0 .. (K - 1) |-> [j \in Cols |->
                  Pool9[((seed + 2 * k + 3 * j) % Len(Pool9)) + 1]]]

JobC(seed) == [i \in Rows |-> [j \in Cols |->
                  Pool22[((seed + i + 2 * j) % Len(Pool22)) + 1]]]

JobPrec(seed) == IF seed % 2 = 0 THEN PREC_FP8_E4M3 ELSE PREC_FP16

(* Job 0 rounds to nearest even, job 1 rounds down, then RMM, RTZ, RUP. *)
JobRm(seed) == (2 * seed) % 5

NoJob == [seed |-> -1, rm |-> RNE]

-----------------------------------------------------------------------------
(* Specification of the TensorCoreSim control surface.                     *)
(* hist records what the harness observed: the last call and its return    *)
(* value, the job last loaded, clean = no token has entered the pipeline   *)
(* since the last reset, sinceLoad = ticks since a load into a clean       *)
(* pipeline (-1 otherwise), and for the last run the value of sinceLoad    *)
(* and of jobs_completed when it was called.                               *)

PsIdle == [none |-> TRUE]

FpIdle == [none |-> TRUE]

DecIdle == [none |-> TRUE]

DevIdle == [none |-> TRUE]

OthersIdle ==
    /\ ps = PsIdle /\ psh = PsIdle /\ dev = DevIdle /\ drv = DevIdle
    /\ fp = FpIdle /\ dec = DecIdle

SimInit ==
    /\ \E g \in GarbageVals, gb \in BOOLEAN : sim = NewTensorCoreSim(g, gb)
    /\ \E bd \in Budgets :
         hist = [lastOp |-> "init", ret |-> -1, job |-> NoJob, clean |-> FALSE,
                 sinceLoad |-> -1, atCall |-> -1, jobsAtCall |-> 0,
                 nticks |-> 0, nloads |-> 0, nresets |-> 0, nruns |-> 0,
                 budget |-> bd]
    /\ OthersIdle

(* Every caller in main.cpp resets the simulator before its first use; a   *)
(* simulator that was never reset holds indeterminate valid flags, so the  *)
(* other calls are offered only after the first reset.                     *)
Reset ==
    /\ hist.nresets < hist.budget.resets
    /\ sim' = reset(sim)
    /\ hist' = [hist EXCEPT !.lastOp = "reset", !.clean = TRUE, !.sinceLoad = -1,
                            !.job = NoJob, !.nresets = @ + 1]
    /\ UNCHANGED <<ps, psh, dev, drv, fp, dec>>

LoadInputs ==
    /\ hist.nresets > 0
    /\ hist.nloads < hist.budget.loads
    /\ \E seed \in JobSeeds :
         /\ sim' = load_inputs(sim, JobA(seed), JobB(seed), JobC(seed), JobPrec(seed),
                                JobRm(seed))
         /\ hist' = [hist EXCEPT !.lastOp = "load",
                                 !.job = [seed |-> seed, rm |-> JobRm(seed)],
                                 !.sinceLoad = IF hist.clean THEN 0 ELSE -1,
                                 !.nloads = @ + 1]
    /\ UNCHANGED <<ps, psh, dev, drv, fp, dec>>

Tick ==
    /\ hist.nresets > 0
    /\ hist.nticks < hist.budget.ticks
    /\ sim' = tick(sim)
    /\ hist' = [hist EXCEPT !.lastOp = "tick",
                            !.clean = hist.clean /\ ~sim.input_loaded,
                            !.sinceLoad = IF hist.sinceLoad >= 0 THEN @ + 1 ELSE @,
                            !.nticks = @ + 1]
    /\ UNCHANGED <<ps, psh, dev, drv, fp, dec>>

RunReturns(r) ==
    /\ sim' = r.st
    /\ hist' = [hist EXCEPT !.lastOp = "run", !.ret = r.ret,
                            !.atCall = hist.sinceLoad,
                            !.jobsAtCall = sim.jobs_completed,
                            !.clean = hist.clean /\ ~sim.input_loaded,
                            !.sinceLoad = IF hist.sinceLoad >= 0 THEN @ + r.ret ELSE @,
                            !.nruns = @ + 1]

RunToCompletion ==
    /\ hist.nresets > 0
    /\ hist.nruns < hist.budget.runs
    /\ RunReturns(run_to_completion(sim))
    /\ UNCHANGED <<ps, psh, dev, drv, fp, dec>>

SimNext == Reset \/ LoadInputs \/ Tick \/ RunToCompletion

Spec == SimInit /\ [][SimNext]_vars


-----------------------------------------------------------------------------
(* Specification of one PipeStage2<T> register driven on its own: the       *)
(* environment offers any input, any downstream readiness and either null   *)
(* or non-null compute functions on every clock.                            *)

(* T is instantiated with the payloads 0 .. PipeDataMax. *)
PipeDataMax == 2

PipeData == 0 .. PipeDataMax

(* The compute functions passed to tick(): "null" stands for nullptr. *)
PipeFns == {"null", "succ"}

PipeApply(f, x) == IF f = "null" THEN x ELSE (x + 1) % (PipeDataMax + 1)

SimIdle == [none |-> TRUE]

(* The tokens the register has accepted and its consumer has not yet taken, *)
(* oldest first, kept beside the register: v is the value the token has     *)
(* now (compute1 applied on acceptance, compute2 when it reaches the second *)
(* stage), moved tells whether it has reached the second stage, age counts  *)
(* the ticks since the tick that accepted it, up to MaxAge, and rdy tells   *)
(* whether out_ready held on every tick since.                              *)
MaxAge == 2

FifoEntry(v) == [v |-> v, moved |-> FALSE, age |-> 0, rdy |-> TRUE]

Older(e, out_ready) ==
    [e EXCEPT !.age = IF @ < MaxAge THEN @ + 1 ELSE @, !.rdy = @ /\ out_ready]

FifoTake(q, take) == IF take /\ q # <<>> THEN Tail(q) ELSE q

FifoAged(q, out_ready) == [n \in 1 .. Len(q) |-> Older(q[n], out_ready)]

FifoMove(q, c2) ==
    IF q # <<>> /\ ~q[1].moved
    THEN [q EXCEPT ![1].moved = TRUE, ![1].v = PipeApply(c2, @)]
    ELSE q

FifoAccept(q, accepted, v1) == IF accepted THEN Append(q, FifoEntry(v1)) ELSE q

(* The consumer takes data2 on the ticks where valid2 and out_ready hold.   *)
FifoTick(q, take, accepted, v1, c2, out_ready) ==
    FifoAccept(FifoMove(FifoAged(FifoTake(q, take), out_ready), c2), accepted, v1)

PipeInit ==
    /\ \E d1 \in PipeData, d2 \in PipeData :
         ps = [data1 |-> d1, data2 |-> d2, valid1 |-> FALSE, valid2 |-> FALSE]
    /\ psh = [op |-> "init", prev |-> PsIdle, in_valid |-> FALSE, in_data |-> 0,
              out_ready |-> FALSE, compute1 |-> "null", compute2 |-> "null",
              ret |-> FALSE, took |-> FALSE, before |-> <<>>, fifo |-> <<>>]
    /\ sim = SimIdle /\ hist = SimIdle /\ dev = DevIdle /\ drv = DevIdle
    /\ fp = FpIdle /\ dec = DecIdle

PipeTicked(r, in_valid, in_data, out_ready, c1, c2) ==
    /\ ps' = r.q
    /\ psh' = [op |-> "tick", prev |-> ps, in_valid |-> in_valid, in_data |-> in_data,
               out_ready |-> out_ready, compute1 |-> c1, compute2 |-> c2,
               ret |-> r.accepted, took |-> (ps.valid2 /\ out_ready),
               before |-> psh.fifo,
               fifo |-> FifoTick(psh.fifo, ps.valid2 /\ out_ready, r.accepted,
                                 PipeApply(c1, in_data), c2, out_ready)]

PipeTick ==
    /\ \E in_valid \in BOOLEAN, in_data \in PipeData, out_ready \in BOOLEAN,
          c1 \in PipeFns, c2 \in PipeFns :
         PipeTicked(PipeStage2_tick(ps, in_valid, out_ready, PipeApply(c1, in_data),
                                    PipeApply(c2, ps.data1)),
                    in_valid, in_data, out_ready, c1, c2)
    /\ UNCHANGED <<sim, hist, dev, drv, fp, dec>>

PipeReset ==
    /\ ps' = PipeStage2_reset(ps)
    /\ psh' = [psh EXCEPT !.op = "reset", !.prev = ps, !.ret = FALSE, !.took = FALSE,
                          !.before = psh.fifo, !.fifo = <<>>]
    /\ UNCHANGED <<sim, hist, dev, drv, fp, dec>>

PipeNext == PipeTick \/ PipeReset

PipeSpec == PipeInit /\ [][PipeNext]_vars


-----------------------------------------------------------------------------
(* tensorcore_Cmodel: OTC_Config (otc_types.h, otc_types.cpp)              *)

TYPE_FP4 == 6

TYPE_FP8 == 2

TYPE_FP16 == 10

TYPE_FP32 == 14

RECURSIVE BitAnd(_, _)
BitAnd(a, b) ==
    IF a = 0 \/ b = 0 THEN 0
    ELSE (a % 2) * (b % 2) + 2 * BitAnd(a \div 2, b \div 2)

RECURSIVE tree_depth_from(_, _)
tree_depth_from(k, d) == IF k > 1 THEN tree_depth_from(k \div 2, d + 1) ELSE d

OTC_Config_tree_depth(cfg) == tree_depth_from(cfg.K, 0)

OTC_Config_total_dp(cfg) == cfg.M * cfg.N

OTC_Config_validate(cfg) ==
    /\ cfg.M > 0 /\ cfg.K > 0 /\ cfg.N > 0
    /\ BitAnd(cfg.K, cfg.K - 1) = 0
    /\ cfg.type_ab \in {TYPE_FP4, TYPE_FP8, TYPE_FP16}
    /\ cfg.type_cd \in {TYPE_FP8, TYPE_FP16, TYPE_FP32}
    /\ cfg.dispatch_width > 0
    /\ cfg.output_fifo_depth > 0
    /\ cfg.mem_bandwidth_bytes_per_cycle > 0

(* OTC_Stats: all counters zero. *)
NewStats ==
    [total_cycles |-> 0, busy_cycles |-> 0, stall_cycles |-> 0,
     format_active_cycles |-> 0, dispatch_active_cycles |-> 0,
     output_backpressure_cycles |-> 0, output_fifo_max_occupancy |-> 0,
     input_fifo_stall_cycles |-> 0, mul_ops |-> 0, add_ops |-> 0,
     matrices_done |-> 0, batches_enqueued |-> 0, dram_read_bytes |-> 0,
     dram_write_bytes |-> 0, total_latency_cycles |-> 0, dp_issue_slots |-> 0,
     dp_busy_unit_cycles |-> 0, dp_capacity_units |-> 0,
     peak_bw_bytes_per_cycle |-> 0]

-----------------------------------------------------------------------------
(* tensorcore_Cmodel/pipeline.cpp: DotProductUnit                           *)
(*                                                                          *)
(* The numbers a batch carries are kept symbolic: a batch is known by the   *)
(* tag of the operand words uploaded for it, and the value a dot-product    *)
(* unit computes is the term dot(tag, type_ab, row, col) over its operands. *)

ZeroValue == [zero |-> TRUE]

NoResult == [value |-> ZeroValue, row |-> 0, col |-> 0]

NewDotProductUnit ==
    [pipe |-> <<>>, output |-> NoResult, output_valid |-> FALSE, total_latency |-> 0]

DotProductUnit_init(u, cfg) ==
    [u EXCEPT !.total_latency = cfg.mul_latency
                                + OTC_Config_tree_depth(cfg) * cfg.add_latency
                                + cfg.add_latency + 1]

DotProductUnit_reset(u) == [u EXCEPT !.pipe = <<>>, !.output_valid = FALSE]

(* push(): the rounded dot product of in.a and in.b plus in.c enters the    *)
(* latency pipe with total_latency_ cycles to go.                           *)
DotProductUnit_push(u, in) ==
    [u EXCEPT !.pipe = Append(@, [result |-> [value |-> [dot |-> in.conv, row |-> in.row,
                                                         col |-> in.col],
                                              row |-> in.row, col |-> in.col],
                                  remaining |-> u.total_latency])]

(* tick(): every entry in flight ages by one cycle; an entry that reaches   *)
(* zero is moved to output_ and erased.                                     *)
RECURSIVE DotProductUnit_age(_, _)
DotProductUnit_age(u, k) ==
    IF k > Len(u.pipe) THEN u
    ELSE IF u.pipe[k].remaining - 1 <= 0
         THEN DotProductUnit_age(
                  [u EXCEPT !.output = u.pipe[k].result, !.output_valid = TRUE,
                            !.pipe = SubSeq(@, 1, k - 1) \o SubSeq(@, k + 1, Len(@))], k)
         ELSE DotProductUnit_age([u EXCEPT !.pipe[k].remaining = @ - 1], k + 1)

DotProductUnit_tick(u) == DotProductUnit_age([u EXCEPT !.output_valid = FALSE], 1)

DotProductUnit_busy(u) == u.pipe # <<>>

(* The adds one push() counts: the reduction tree and the add of C. *)
RECURSIVE tree_adds(_)
tree_adds(n) == IF n > 1 THEN (n \div 2) + tree_adds(n \div 2) ELSE 0

(* quantize_output(): the value rounded to the output format type_cd. *)
quantize_output(v, cfg) == [quantized |-> v, type_cd |-> cfg.type_cd]

-----------------------------------------------------------------------------
(* tensorcore_Cmodel/pipeline.cpp: TensorCoreUnit                           *)

NoActive ==
    [valid |-> FALSE, id |-> 0, conv |-> ZeroValue, output_d |-> <<>>,
     dispatch_idx |-> 0, results_collected |-> 0, start_cycle |-> 0]

(* A default-constructed configuration.  Its dimensions and formats are     *)
(* those of otc_types.h; the queue parameters are positive.                 *)
DefaultConfig ==
    [M |-> 8, K |-> 8, N |-> 8, type_ab |-> TYPE_FP8, type_cd |-> TYPE_FP32,
     mul_latency |-> 2, add_latency |-> 2, dispatch_width |-> 8,
     input_fifo_depth |-> 4, output_fifo_depth |-> 4,
     mem_bandwidth_bytes_per_cycle |-> 64]

NewTensorCoreUnit ==
    [cfg |-> DefaultConfig, stats |-> NewStats, dp_units |-> <<>>,
     state |-> "IDLE", cycle |-> 0,
     input_fifo |-> <<>>, format_fifo |-> <<>>, output_fifo |-> <<>>,
     active |-> NoActive, next_batch_id |-> 0, total_dp_busy |-> 0,
     last_output_d |-> <<>>, did_work |-> FALSE]

(* std::vector::resize(n, fill): the first n elements are kept. *)
Resize(v, n, fill) == [k \in 1 .. n |-> IF k <= Len(v) THEN v[k] ELSE fill]

TensorCoreUnit_init(t, cfg) ==
    [t EXCEPT !.cfg = cfg,
              !.dp_units = [k \in 1 .. OTC_Config_total_dp(cfg) |->
                               DotProductUnit_init(
                                   IF k <= Len(t.dp_units) THEN t.dp_units[k]
                                   ELSE NewDotProductUnit, cfg)],
              !.last_output_d = Resize(@, OTC_Config_total_dp(cfg), ZeroValue),
              !.stats.dp_capacity_units = OTC_Config_total_dp(cfg),
              !.stats.peak_bw_bytes_per_cycle = cfg.mem_bandwidth_bytes_per_cycle]

TensorCoreUnit_reset(t) ==
    [t EXCEPT !.state = "IDLE", !.cycle = 0,
              !.stats = [NewStats EXCEPT
                            !.dp_capacity_units = OTC_Config_total_dp(t.cfg),
                            !.peak_bw_bytes_per_cycle = t.cfg.mem_bandwidth_bytes_per_cycle],
              !.input_fifo = <<>>, !.format_fifo = <<>>, !.output_fifo = <<>>,
              !.active = NoActive, !.next_batch_id = 0, !.total_dp_busy = 0,
              !.dp_units = [k \in 1 .. Len(t.dp_units) |-> DotProductUnit_reset(t.dp_units[k])],
              !.last_output_d = [k \in 1 .. Len(t.last_output_d) |-> ZeroValue]]

(* enqueue_job(): raw stands for the three operand vectors, a tag for their *)
(* contents and their total length in words.                                *)
enqueue_job(t, raw) ==
    IF Len(t.input_fifo) >= t.cfg.input_fifo_depth
    THEN [t |-> t, ok |-> FALSE]
    ELSE [t |-> [t EXCEPT !.next_batch_id = @ + 1,
                          !.input_fifo = Append(@, [id |-> t.next_batch_id, raw |-> raw]),
                          !.stats.batches_enqueued = @ + 1],
          ok |-> TRUE]

(* load(): a batch refused by the full FIFO is dropped with a log line. *)
TensorCoreUnit_load(t, raw) == enqueue_job(t, raw).t

(* start(): the assertion on the state is the caller's obligation; see      *)
(* otc_start and TensorCoreUnit_run.                                        *)
TensorCoreUnit_start(t) == [t EXCEPT !.state = "RUNNING"]

do_format_conversion_stage(t) ==
    IF t.input_fifo = <<>> THEN t
    ELSE [t EXCEPT !.stats.dram_read_bytes = @ + Head(t.input_fifo).raw.words * 4,
                   !.format_fifo = Append(@, [id |-> Head(t.input_fifo).id,
                                              conv |-> [tag |-> Head(t.input_fifo).raw.tag,
                                                        type_ab |-> t.cfg.type_ab]]),
                   !.input_fifo = Tail(@)]

(* load_active_from_format(): a true return sets did_work in tick(). *)
load_active_from_format(t) ==
    IF t.active.valid \/ t.format_fifo = <<>> THEN t
    ELSE [t EXCEPT !.active = [valid |-> TRUE, id |-> Head(t.format_fifo).id,
                               conv |-> Head(t.format_fifo).conv,
                               output_d |-> [k \in 1 .. OTC_Config_total_dp(t.cfg) |-> ZeroValue],
                               dispatch_idx |-> 0, results_collected |-> 0,
                               start_cycle |-> t.cycle],
                   !.format_fifo = Tail(@),
                   !.did_work = TRUE]

dispatch_one(t) ==
    [t EXCEPT !.dp_units[t.active.dispatch_idx + 1] =
                  DotProductUnit_push(@, [conv |-> t.active.conv,
                                          row |-> t.active.dispatch_idx \div t.cfg.N,
                                          col |-> t.active.dispatch_idx % t.cfg.N]),
              !.stats.mul_ops = @ + t.cfg.K,
              !.stats.add_ops = @ + tree_adds(t.cfg.K) + 1,
              !.active.dispatch_idx = @ + 1]

RECURSIVE dispatch_loop(_, _, _)
dispatch_loop(t, launch_budget, launched) ==
    IF launch_budget > 0 /\ t.active.dispatch_idx < OTC_Config_total_dp(t.cfg)
    THEN dispatch_loop(dispatch_one(t), launch_budget - 1, launched + 1)
    ELSE [t EXCEPT !.stats.dp_issue_slots = @ + t.cfg.dispatch_width,
                   !.stats.dispatch_active_cycles = IF launched > 0 THEN @ + 1 ELSE @]

dispatch_some(t) ==
    IF ~t.active.valid THEN t ELSE dispatch_loop(t, t.cfg.dispatch_width, 0)

(* Variant: a result is taken only by an empty output FIFO. *)
push_output_result_one_slot(t, br) ==
    IF Len(t.output_fifo) >= Min(t.cfg.output_fifo_depth, 1)
    THEN [t |-> [t EXCEPT !.stats.output_backpressure_cycles = @ + 1], ok |-> FALSE]
    ELSE [t |-> [t EXCEPT !.output_fifo = Append(@, br),
                          !.stats.output_fifo_max_occupancy = Max(@, Len(t.output_fifo) + 1),
                          !.stats.dram_write_bytes = @ + Len(br.d) * 4],
          ok |-> TRUE]

push_output_result(t, br) ==
    IF Len(t.output_fifo) >= t.cfg.output_fifo_depth
    THEN [t |-> [t EXCEPT !.stats.output_backpressure_cycles = @ + 1], ok |-> FALSE]
    ELSE [t |-> [t EXCEPT !.output_fifo = Append(@, br),
                          !.stats.output_fifo_max_occupancy = Max(@, Len(t.output_fifo) + 1),
                          !.stats.dram_write_bytes = @ + Len(br.d) * 4],
          ok |-> TRUE]

(* Variant: the newest result is handed out. *)
pop_output_result_newest(t) ==
    IF t.output_fifo = <<>> THEN [t |-> t, ok |-> FALSE, br |-> NoResult]
    ELSE [t |-> [t EXCEPT !.output_fifo = SubSeq(@, 1, Len(@) - 1)], ok |-> TRUE,
          br |-> t.output_fifo[Len(t.output_fifo)]]

pop_output_result(t) ==
    IF t.output_fifo = <<>> THEN [t |-> t, ok |-> FALSE, br |-> NoResult]
    ELSE [t |-> [t EXCEPT !.output_fifo = Tail(@)], ok |-> TRUE, br |-> Head(t.output_fifo)]

can_accept_job(t) == Len(t.input_fifo) < t.cfg.input_fifo_depth

(* collect_results(), the loop over the units: unit u ticks, a result it    *)
(* puts out is quantized into the active batch, and busy units are counted. *)
collect_from(t, u) ==
    IF t.dp_units[u].output_valid /\ t.active.valid
    THEN [t EXCEPT !.active.output_d[t.dp_units[u].output.row * t.cfg.N
                                     + t.dp_units[u].output.col + 1] =
                       quantize_output(t.dp_units[u].output.value, t.cfg),
                   !.active.results_collected = @ + 1]
    ELSE t

collect_unit(t, u) == collect_from([t EXCEPT !.dp_units[u] = DotProductUnit_tick(@)], u)

(* Variant: the active slot is released whether or not the push succeeded. *)
collect_pushed_releases_always(t, r, br) ==
    IF r.ok
    THEN [r.t EXCEPT !.stats.matrices_done = @ + 1,
                     !.stats.total_latency_cycles = @ + (br.done_cycle - br.start_cycle + 1),
                     !.last_output_d = br.d,
                     !.active = NoActive]
    ELSE [r.t EXCEPT !.active = NoActive]

(* The tail of collect_results(): a complete batch moves to the output FIFO *)
(* if there is room, and stays active otherwise.                            *)
collect_pushed(t, r, br) ==
    IF r.ok
    THEN [r.t EXCEPT !.stats.matrices_done = @ + 1,
                     !.stats.total_latency_cycles = @ + (br.done_cycle - br.start_cycle + 1),
                     !.last_output_d = br.d,
                     !.active = NoActive]
    ELSE r.t

collect_push(t, br) == collect_pushed(t, push_output_result(t, br), br)

collect_done(t) ==
    IF t.active.valid /\ t.active.results_collected >= OTC_Config_total_dp(t.cfg)
    THEN collect_push(t, [id |-> t.active.id, d |-> t.active.output_d,
                          start_cycle |-> t.active.start_cycle, done_cycle |-> t.cycle])
    ELSE t

RECURSIVE collect_loop(_, _, _)
collect_next(t, u, busy_units) ==
    collect_loop(t, u + 1,
                 IF DotProductUnit_busy(t.dp_units[u]) THEN busy_units + 1 ELSE busy_units)

collect_loop(t, u, busy_units) ==
    IF u <= Len(t.dp_units)
    THEN collect_next(collect_unit(t, u), u, busy_units)
    ELSE collect_done([t EXCEPT !.total_dp_busy = @ + busy_units])

collect_results(t) == collect_loop(t, 1, 0)

(* Variant: a batch still held in the active slot does not count as work. *)
has_pending_work_ignores_active(t) ==
    \/ t.input_fifo # <<>> \/ t.format_fifo # <<>>
    \/ \E u \in 1 .. Len(t.dp_units) : DotProductUnit_busy(t.dp_units[u])

has_pending_work(t) ==
    \/ t.input_fifo # <<>> \/ t.format_fifo # <<>>
    \/ t.active.valid
    \/ \E u \in 1 .. Len(t.dp_units) : DotProductUnit_busy(t.dp_units[u])

(* tick(), step by step.  did_work is the local of that name; it is false   *)
(* between ticks.                                                           *)
tick_count(t) == [t EXCEPT !.cycle = @ + 1, !.stats.total_cycles = @ + 1]

tick_format(t) ==
    IF t.input_fifo # <<>>
    THEN do_format_conversion_stage(
             [t EXCEPT !.stats.format_active_cycles = @ + 1, !.did_work = TRUE])
    ELSE t

tick_dispatch(t) ==
    IF t.active.valid THEN dispatch_some([t EXCEPT !.did_work = TRUE]) ELSE t

tick_account(t) ==
    IF t.did_work
    THEN [t EXCEPT !.stats.busy_cycles = @ + 1]
    ELSE [t EXCEPT !.stats.stall_cycles = @ + 1,
                   !.stats.input_fifo_stall_cycles = IF ~can_accept_job(t) THEN @ + 1 ELSE @]

tick_finish(t) ==
    [t EXCEPT !.stats.dp_busy_unit_cycles = t.total_dp_busy,
              !.state = IF ~has_pending_work(t) THEN "DONE" ELSE @,
              !.did_work = FALSE]

TensorCoreUnit_tick_running(t) ==
    tick_finish(tick_account(collect_results(tick_dispatch(
        load_active_from_format(tick_format(t))))))

TensorCoreUnit_tick(t) ==
    IF t.state \in {"IDLE", "DONE"} THEN tick_count(t)
    ELSE TensorCoreUnit_tick_running(tick_count(t))

(* run(): start() if the core is idle or done, then tick until DONE or      *)
(* until cycle_ has reached max_cycles.                                     *)
RECURSIVE run_ticks(_, _)
run_ticks(t, max_cycles) ==
    IF (t.cycle = t.cycle) /\ t.state # "DONE" /\ t.cycle < max_cycles
    THEN run_ticks(TensorCoreUnit_tick(t), max_cycles)
    ELSE t

TensorCoreUnit_run(t, max_cycles) ==
    run_ticks(IF t.state \in {"IDLE", "DONE"} THEN TensorCoreUnit_start(t) ELSE t,
              max_cycles)

is_done(t) == t.state = "DONE"

-----------------------------------------------------------------------------
(* tensorcore_Cmodel/otc_driver.cpp: the driver API on an OTC_Device        *)

NewDevice == [tc |-> NewTensorCoreUnit, configured |-> FALSE]

(* Variant: the core is initialised before the configuration is checked. *)
otc_configure_init_first(d, cfg) ==
    IF ~OTC_Config_validate(cfg)
    THEN [d |-> [d EXCEPT !.tc = TensorCoreUnit_reset(@)], ret |-> -1]
    ELSE [d |-> [tc |-> TensorCoreUnit_reset(TensorCoreUnit_init(d.tc, cfg)),
                 configured |-> TRUE],
          ret |-> 0]

otc_configure(d, cfg) ==
    IF ~OTC_Config_validate(cfg)
    THEN [d |-> d, ret |-> -1]
    ELSE [d |-> [tc |-> TensorCoreUnit_reset(TensorCoreUnit_init(d.tc, cfg)),
                 configured |-> TRUE],
          ret |-> 0]

otc_upload(d, raw) ==
    IF ~d.configured THEN [d |-> d, ret |-> -1]
    ELSE [d |-> [d EXCEPT !.tc = TensorCoreUnit_load(@, raw)], ret |-> 0]

(* otc_start(): start() asserts that the core is IDLE or DONE; asserted     *)
(* tells whether that assertion holds at the call.                          *)
otc_start(d) ==
    IF ~d.configured THEN [d |-> d, ret |-> -1, asserted |-> TRUE]
    ELSE [d |-> [d EXCEPT !.tc = TensorCoreUnit_start(@)], ret |-> 0,
          asserted |-> d.tc.state \in {"IDLE", "DONE"}]

otc_ready(d) == IF is_done(d.tc) THEN 1 ELSE 0

otc_tick(d) == [d |-> [d EXCEPT !.tc = TensorCoreUnit_tick(@)], ret |-> 0]

otc_run_ret(d) == [d |-> d, ret |-> IF is_done(d.tc) THEN 0 ELSE -1]

otc_run(d, max_cycles) == otc_run_ret([d EXCEPT !.tc = TensorCoreUnit_run(@, max_cycles)])

-----------------------------------------------------------------------------
(* Specification of the Cmodel device behind its driver API.  drv records   *)
(* what the host observed: the last call, its return value and budget, the  *)
(* ids of the batches that have been placed in the output FIFO since the    *)
(* last reset, the ids the successful pops returned since then, oldest      *)
(* first, and whether an assertion stopped the program.                     *)

(* The largest cycle count a behaviour reaches, and the cycle budgets the   *)
(* host passes to otc_run.                                                  *)
MaxCycle == 7

ShortBudget == 2

RunBudgets == {ShortBudget, MaxCycle}

(* Batches accepted between two resets. *)
MaxBatches == 2

NumPayloads == 1

Raws == {[tag |-> p, words |-> 2 + p] : p \in 1 .. NumPayloads}

(* A 1x2 core fed one unit per cycle with room for one result, and a 2x1    *)
(* core fed two units per cycle with room for two.                          *)
ConfigA ==
    [M |-> 1, K |-> 2, N |-> 2, type_ab |-> TYPE_FP8, type_cd |-> TYPE_FP32,
     mul_latency |-> 1, add_latency |-> 0, dispatch_width |-> 1,
     input_fifo_depth |-> 2, output_fifo_depth |-> 1,
     mem_bandwidth_bytes_per_cycle |-> 16]

ConfigB ==
    [M |-> 2, K |-> 4, N |-> 1, type_ab |-> TYPE_FP16, type_cd |-> TYPE_FP16,
     mul_latency |-> 0, add_latency |-> 0, dispatch_width |-> 2,
     input_fifo_depth |-> 1, output_fifo_depth |-> 2,
     mem_bandwidth_bytes_per_cycle |-> 16]

InvalidConfigs ==
    { [ConfigA EXCEPT !.M = 0], [ConfigA EXCEPT !.K = 3], [ConfigA EXCEPT !.K = 0],
      [ConfigA EXCEPT !.N = -1], [ConfigB EXCEPT !.type_ab = TYPE_FP32],
      [ConfigB EXCEPT !.type_cd = TYPE_FP4] }

DevConfigs == {ConfigA, ConfigB} \cup InvalidConfigs

Ids(fifo) == {fifo[k].id : k \in 1 .. Len(fifo)}

DevInit ==
    /\ dev = NewDevice
    /\ drv = [op |-> "open", ret |-> 0, max_cycles |-> 0, placed |-> {},
              popped |-> <<>>, aborted |-> FALSE]
    /\ sim = SimIdle /\ hist = SimIdle /\ ps = PsIdle /\ psh = PsIdle
    /\ fp = FpIdle /\ dec = DecIdle

Configured(r) ==
    /\ dev' = r.d
    /\ drv' = [drv EXCEPT !.op = "configure", !.ret = r.ret,
                          !.placed = IF r.ret = 0 THEN {} ELSE @,
                          !.popped = IF r.ret = 0 THEN <<>> ELSE @]

OtcConfigureWith(cfg) ==
    /\ ~drv.aborted
    /\ Configured(otc_configure(dev, cfg))
    /\ UNCHANGED <<sim, hist, ps, psh, fp, dec>>

OtcConfigure == \E cfg \in DevConfigs : OtcConfigureWith(cfg)

Uploaded(r) ==
    /\ dev' = r.d
    /\ drv' = [drv EXCEPT !.op = "upload", !.ret = r.ret]

OtcUpload ==
    /\ ~drv.aborted
    /\ dev.tc.next_batch_id < MaxBatches
    /\ \E raw \in Raws : Uploaded(otc_upload(dev, raw))
    /\ UNCHANGED <<sim, hist, ps, psh, fp, dec>>

(* A failed assertion in start() ends the program. *)
Started(r) ==
    IF r.asserted
    THEN /\ dev' = r.d
         /\ drv' = [drv EXCEPT !.op = "start", !.ret = r.ret]
    ELSE /\ dev' = dev
         /\ drv' = [drv EXCEPT !.op = "start", !.aborted = TRUE]

OtcStart ==
    /\ ~drv.aborted
    /\ Started(otc_start(dev))
    /\ UNCHANGED <<sim, hist, ps, psh, fp, dec>>

OtcReady ==
    /\ ~drv.aborted
    /\ drv' = [drv EXCEPT !.op = "ready", !.ret = otc_ready(dev)]
    /\ UNCHANGED <<dev, sim, hist, ps, psh, fp, dec>>

Ticked(r) ==
    /\ dev' = r.d
    /\ drv' = [drv EXCEPT !.op = "tick", !.ret = r.ret,
                          !.placed = @ \cup Ids(r.d.tc.output_fifo)]

OtcTick ==
    /\ ~drv.aborted
    /\ dev.tc.cycle < MaxCycle
    /\ Ticked(otc_tick(dev))
    /\ UNCHANGED <<sim, hist, ps, psh, fp, dec>>

Ran(r, max_cycles) ==
    /\ dev' = r.d
    /\ drv' = [drv EXCEPT !.op = "run", !.ret = r.ret, !.max_cycles = max_cycles,
                          !.placed = @ \cup Ids(r.d.tc.output_fifo)]

OtcRun ==
    /\ ~drv.aborted
    /\ \E max_cycles \in RunBudgets : Ran(otc_run(dev, max_cycles), max_cycles)
    /\ UNCHANGED <<sim, hist, ps, psh, fp, dec>>

Popped(r) ==
    /\ dev' = [dev EXCEPT !.tc = r.t]
    /\ drv' = [drv EXCEPT !.op = "pop", !.ret = IF r.ok THEN 1 ELSE 0,
                          !.popped = IF r.ok THEN Append(@, r.br.id) ELSE @]

PopOutputResult ==
    /\ ~drv.aborted
    /\ Popped(pop_output_result(dev.tc))
    /\ UNCHANGED <<sim, hist, ps, psh, fp, dec>>

DevNext ==
    OtcConfigure \/ OtcUpload \/ OtcStart \/ OtcReady \/ OtcTick \/ OtcRun
        \/ PopOutputResult

DevSpec == DevInit /\ [][DevNext]_vars

-----------------------------------------------------------------------------
(* The same device under a host that lets the core work: it configures the *)
(* device once, uploads, starts or runs the core when it has work, ticks   *)
(* it while it is RUNNING, and pops results.  A core                       *)
(* whose complete batch waits behind a full output FIFO is ticked at most  *)
(* MaxHeld times in all before the host pops.                              *)

MaxHeld == 2

HeldTick(t) ==
    /\ t.active.valid /\ t.active.results_collected >= OTC_Config_total_dp(t.cfg)
    /\ Len(t.output_fifo) >= t.cfg.output_fifo_depth

LiveConfigure ==
    /\ ~dev.configured
    /\ \E cfg \in {ConfigA, ConfigB} : OtcConfigureWith(cfg)

LiveStart ==
    /\ dev.configured
    /\ dev.tc.state \in {"IDLE", "DONE"}
    /\ has_pending_work(dev.tc)
    /\ OtcStart

(* A tick always changes the state (cycle_ grows), so LiveTick is enabled   *)
(* exactly when its guard holds.                                           *)
LiveTickEnabled ==
    /\ ~drv.aborted
    /\ dev.tc.state = "RUNNING"
    /\ HeldTick(dev.tc) => dev.tc.stats.output_backpressure_cycles < MaxHeld

LiveTick ==
    /\ LiveTickEnabled
    /\ Ticked(otc_tick(dev))
    /\ UNCHANGED <<sim, hist, ps, psh, fp, dec>>

LiveRun ==
    /\ dev.configured
    /\ has_pending_work(dev.tc)
    /\ OtcRun

LivePop == dev.configured /\ PopOutputResult

LivePopFull == Len(dev.tc.output_fifo) >= dev.tc.cfg.output_fifo_depth /\ LivePop

LiveNext == LiveConfigure \/ OtcUpload \/ LiveStart \/ LiveTick \/ LiveRun \/ LivePop

(* tick() is called as long as the core is RUNNING, and a full output FIFO *)
(* is popped.  The first condition is WF_vars(LiveTick) with ENABLED        *)
(* written out as LiveTickEnabled.                                         *)
LiveSpec ==
    /\ DevInit /\ [][LiveNext]_vars
    /\ ([]<>(~LiveTickEnabled) \/ []<><<LiveTick>>_vars)
    /\ WF_vars(LivePopFull)


-----------------------------------------------------------------------------
(* otc_decode.h / otc_decode.cpp: the table-driven instruction decoder.    *)
(* OTC_OpType and ExecUnit values are strings; an instruction word is a    *)
(* natural below 2^31.                                                     *)

ISA_Entry(op, opcode, unit_id, funct3, target, funct3_mask) ==
    [op |-> op, opcode |-> opcode, unit_id |-> unit_id, funct3 |-> funct3,
     target |-> target, funct3_mask |-> funct3_mask]

DEFAULT_ISA_TABLE ==
    << ISA_Entry("TCU_WMMA",    33,  1, 1, "TCU",  7),
       ISA_Entry("TCU_LOAD",    35,  1, 1, "TCU",  7),
       ISA_Entry("TCU_STORE",   39,  1, 1, "TCU",  7),
       ISA_Entry("LOAD",        3,   2, 2, "LSU",  7),
       ISA_Entry("STORE",       35,  2, 2, "LSU",  7),
       ISA_Entry("TCU_BARRIER", 51,  3, 1, "SYNC", 7),
       ISA_Entry("TCU_SP",      67,  4, 1, "TCU",  7),
       ISA_Entry("TCU_INT",     83,  5, 0, "TCU",  7),
       ISA_Entry("TCU_DP",      99,  6, 1, "TCU",  7),
       ISA_Entry("TCU_SFU",     115, 7, 1, "SFU",  7) >>

extract_opcode(inst) == Low(inst, 7)

extract_rd(inst) == Low(Shr(inst, 7), 5)

extract_funct3(inst) == Low(Shr(inst, 12), 3)

extract_rs1(inst) == Low(Shr(inst, 15), 5)

extract_rs2(inst) == Low(Shr(inst, 20), 5)

extract_funct7(inst) == Low(Shr(inst, 25), 7)

(* A 12-bit field read as a signed immediate.                              *)
sign_extend_12(u) == IF u >= 2048 THEN u - 4096 ELSE u

extract_imm_I(inst) == sign_extend_12(Low(Shr(inst, 20), 12))

extract_imm_S(inst) ==
    sign_extend_12(Shl(Low(Shr(inst, 25), 7), 5) + Low(Shr(inst, 7), 5))

NewDecoder == [table_ |-> <<>>]

OTC_Decoder_init(dc) == [dc EXCEPT !.table_ = DEFAULT_ISA_TABLE]

(* load_isa_table that adds the new entries after the old ones.            *)
OTC_Decoder_load_isa_table_appends(dc, table) == [dc EXCEPT !.table_ = @ \o table]

OTC_Decoder_load_isa_table(dc, table) == [dc EXCEPT !.table_ = table]

(* match: the index of the first matching entry (from 1), 0 for none.      *)
RECURSIVE match_from(_, _, _)
match_from(table_, inst, i) ==
    IF i > Len(table_) THEN 0
    ELSE IF extract_opcode(inst) # table_[i].opcode THEN match_from(table_, inst, i + 1)
    ELSE IF BitAnd(extract_funct3(inst), table_[i].funct3_mask)
            # BitAnd(table_[i].funct3, table_[i].funct3_mask)
         THEN match_from(table_, inst, i + 1)
    ELSE i

OTC_Decoder_match(dc, inst) == match_from(dc.table_, inst, 1)

(* DecodedInst with its default member initialisers and the fields decode  *)
(* always fills.                                                           *)
DecodedInst(inst) ==
    [op |-> "NOP", unit |-> "NONE", raw |-> inst,
     rd |-> extract_rd(inst), rs1 |-> extract_rs1(inst), rs2 |-> extract_rs2(inst),
     rs3 |-> 0, imm |-> 0,
     funct3 |-> extract_funct3(inst), funct7 |-> extract_funct7(inst),
     mat_m |-> 0, mat_k |-> 0, mat_n |-> 0, dtype |-> 0, dtype_sub |-> 0,
     valid |-> FALSE, is_mem |-> FALSE, is_tcu |-> FALSE, is_sync |-> FALSE]

(* decode, operand extraction by instruction class.                        *)
decode_operands(d, inst) ==
    CASE d.op = "TCU_WMMA" ->
             [d EXCEPT !.rs3 = Low(Shr(d.funct7, 2), 5), !.dtype = Low(d.funct7, 2)]
      [] d.op \in {"TCU_LOAD", "LOAD"}   -> [d EXCEPT !.imm = extract_imm_I(inst)]
      [] d.op \in {"TCU_STORE", "STORE"} -> [d EXCEPT !.imm = extract_imm_S(inst)]
      [] d.op \in {"TCU_SP", "TCU_INT", "TCU_DP"} -> [d EXCEPT !.dtype = d.rs2]
      [] OTHER -> d

decode_matched(d, e, inst) ==
    decode_operands(
        [d EXCEPT !.op = e.op, !.unit = e.target, !.valid = TRUE,
                  !.is_tcu  = e.target \in {"TCU", "SFU"},
                  !.is_mem  = e.op \in {"LOAD", "STORE", "TCU_LOAD", "TCU_STORE"},
                  !.is_sync = e.op = "TCU_BARRIER"],
        inst)

decode_at(dc, inst, idx) ==
    IF idx = 0 THEN DecodedInst(inst)
    ELSE decode_matched(DecodedInst(inst), dc.table_[idx], inst)

OTC_Decoder_decode(dc, inst) == decode_at(dc, inst, OTC_Decoder_match(dc, inst))

-----------------------------------------------------------------------------
(* Specification ConvSpec: the format conversions of fp_types.h applied to *)
(* every bit pattern of every source format.  fp.x is the input pattern of *)
(* format fp.fmt; a conversion step fills the next field of the chain      *)
(*     external format -> FP9 -> FP22 -> external format                   *)
(* as convert_c_to_fp22 and the output stage chain them.  fp.done names the *)
(* fields computed so far; a field not computed holds 0.                   *)

ConvFormats == {"fp16", "fp8_e5m2", "fp8_e4m3", "fp13", "fp9", "fp4", "fp22"}

FormatWidth(fmt) ==
    CASE fmt = "fp22" -> 22
      [] fmt = "fp16" -> 16
      [] fmt = "fp13" -> 13
      [] fmt = "fp9"  -> 9
      [] fmt = "fp4"  -> 4
      [] OTHER        -> 8

(* The FP22 patterns offered to the output conversions directly: both     *)
(* signs, the exponent fields at and around the edges of the three target  *)
(* ranges (zero and subnormal results, the E4M3 limit 134/135, the E5      *)
(* limit 142/143, Inf/NaN), and mantissas made of every value of the top   *)
(* four bits, bits 3..8 all clear or all set, and every value of the low   *)
(* three bits, so that the kept bits can be all ones with every guard,     *)
(* round and sticky combination in each target format.                     *)
Fp22Exponents ==
    {0, 1, 105, 106, 112, 113, 119, 120, 121, 127, 133, 134, 135, 136, 141, 142, 143, 144,
     254, 255}

Fp22Mantissas == {hi * 512 + mid * 504 + lo : hi \in 0 .. 15, mid \in 0 .. 1, lo \in 0 .. 7}

Fp22Patterns ==
    {Shl(sg, 21) + Shl(e, 13) + m : sg \in 0 .. 1, e \in Fp22Exponents, m \in Fp22Mantissas}

ConvPatterns(fmt) ==
    IF fmt = "fp22" THEN Fp22Patterns ELSE 0 .. (Pow2(FormatWidth(fmt)) - 1)

ConvInit ==
    /\ \E fmt \in ConvFormats : \E x \in ConvPatterns(fmt) :
           fp = [fmt |-> fmt, x |-> x,
                 fp9 |-> IF fmt = "fp9" THEN x ELSE 0,
                 fp22 |-> IF fmt = "fp22" THEN x ELSE 0,
                 rm |-> RNE, to |-> "none", out |-> 0, f64 |-> DZero(0),
                 done |-> IF fmt \in {"fp9", "fp22"} THEN {fmt} ELSE {}]
    /\ sim = SimIdle /\ hist = SimIdle /\ ps = PsIdle /\ psh = PsIdle
    /\ dev = DevIdle /\ drv = DevIdle /\ dec = DecIdle

ConvFrame == UNCHANGED <<sim, hist, ps, psh, dev, drv, dec>>

Fp4ToFp9 ==
    /\ fp.fmt = "fp4" /\ "fp9" \notin fp.done
    /\ fp' = [fp EXCEPT !.fp9 = fp4_to_fp9(fp.x),
                       !.done = @ \cup {"fp9"}]
    /\ ConvFrame

Fp8E4M3ToFp9 ==
    /\ fp.fmt = "fp8_e4m3" /\ fp.done = {}
    /\ fp' = [fp EXCEPT !.fp9 = fp8_e4m3_to_fp9(fp.x),
                       !.done = @ \cup {"fp9"}]
    /\ ConvFrame

Fp8E5M2ToFp9 ==
    /\ fp.fmt = "fp8_e5m2" /\ "fp9" \notin fp.done
    /\ fp' = [fp EXCEPT !.fp9 = fp8_e5m2_to_fp9(fp.x),
                       !.done = @ \cup {"fp9"}]
    /\ ConvFrame

Fp9ToFp22 ==
    /\ "fp9" \in fp.done /\ "fp22" \notin fp.done
    /\ fp' = [fp EXCEPT !.fp22 = fp9_to_fp22(fp.fp9),
                       !.done = @ \cup {"fp22"}]
    /\ ConvFrame

Fp13ToFp22 ==
    /\ fp.fmt = "fp13" /\ "fp22" \notin fp.done
    /\ fp' = [fp EXCEPT !.fp22 = fp13_to_fp22(fp.x),
                       !.done = @ \cup {"fp22"}]
    /\ ConvFrame

Fp16ToFp22 ==
    /\ fp.fmt = "fp16" /\ "fp22" \notin fp.done
    /\ fp' = [fp EXCEPT !.fp22 = fp16_to_fp22(fp.x),
                       !.done = @ \cup {"fp22"}]
    /\ ConvFrame

Fp22ToFp16 ==
    /\ fp.fmt \in {"fp16", "fp22"} /\ "fp22" \in fp.done /\ "out" \notin fp.done
    /\ \E rm \in RoundingModes :
           fp' = [fp EXCEPT !.rm = rm, !.to = "fp16", !.out = fp22_to_fp16(fp.fp22, rm),
                           !.done = @ \cup {"out"}]
    /\ ConvFrame

Fp22ToFp8E5M2 ==
    /\ fp.fmt \in {"fp8_e5m2", "fp22"} /\ "fp22" \in fp.done /\ "out" \notin fp.done
    /\ \E rm \in RoundingModes :
           fp' = [fp EXCEPT !.rm = rm, !.to = "fp8_e5m2", !.out = fp22_to_fp8_e5m2(fp.fp22, rm),
                           !.done = @ \cup {"out"}]
    /\ ConvFrame

Fp22ToFp8E4M3 ==
    /\ fp.fmt \in {"fp8_e4m3", "fp22"} /\ "fp22" \in fp.done /\ "out" \notin fp.done
    /\ \E rm \in RoundingModes :
           fp' = [fp EXCEPT !.rm = rm, !.to = "fp8_e4m3", !.out = fp22_to_fp8_e4m3(fp.fp22, rm),
                           !.done = @ \cup {"out"}]
    /\ ConvFrame

FPConvertFp8E4M3ToF64 ==
    /\ fp.fmt = "fp8_e4m3" /\ fp.done = {}
    /\ fp' = [fp EXCEPT !.f64 = FPConvert_fp8e4m3_to_f64(fp.x),
                        !.done = {"f64"}]
    /\ ConvFrame

ConvNext ==
    \/ FPConvertFp8E4M3ToF64
    \/ Fp4ToFp9 \/ Fp8E4M3ToFp9 \/ Fp8E5M2ToFp9 \/ Fp9ToFp22 \/ Fp13ToFp22 \/ Fp16ToFp22
    \/ Fp22ToFp16 \/ Fp22ToFp8E5M2 \/ Fp22ToFp8E4M3

ConvSpec == ConvInit /\ [][ConvNext]_vars

-----------------------------------------------------------------------------
(* Specification ArithSpec: the three-phase multiplier and the two-path    *)
(* adder in their FP9 instance (EXPWIDTH 5, PRECISION 4, OUTPC 4).  One    *)
(* operand ranges over every FP9 bit pattern, the other over the probes:   *)
(* every NaN, both infinities, both zeros, 1.0 and -1.0, the finite values *)
(* of the two top binades, and the negation of the first operand.          *)

FP9_EXPWIDTH == 5

FP9_PRECISION == 4

FP9Patterns == 0 .. 511

FP9_ONE == 120

fp9_negate(x) == IF x >= 256 THEN x - 256 ELSE x + 256

FP9NaNs == {x \in FP9Patterns : Low(Shr(x, 3), 5) = 31 /\ Low(x, 3) # 0}

(* The finite patterns of the two top binades, both signs. *)
FP9Large == {x \in FP9Patterns : Low(Shr(x, 3), 5) \in {29, 30}}

FP9Probes == FP9NaNs \cup {248, 504, 0, 256, FP9_ONE, fp9_negate(FP9_ONE)} \cup FP9Large

ArithOperands ==
    {<<x, p>> : x \in FP9Patterns, p \in FP9Probes}
    \cup {<<p, x>> : x \in FP9Patterns, p \in FP9Probes}
    \cup {<<x, fp9_negate(x)>> : x \in FP9Patterns}

ArithInit ==
    /\ \E ab \in ArithOperands : \E rm \in RoundingModes :
           fp = [op |-> "none", a |-> ab[1], b |-> ab[2], rm |-> rm, out |-> 0]
    /\ sim = SimIdle /\ hist = SimIdle /\ ps = PsIdle /\ psh = PsIdle
    /\ dev = DevIdle /\ drv = DevIdle /\ dec = DecIdle

FpMultiply ==
    /\ fp.op = "none"
    /\ fp' = [fp EXCEPT !.op = "fp_multiply",
                        !.out = fp_multiply(fp.a, fp.b, FP9_EXPWIDTH, FP9_PRECISION, fp.rm)]
    /\ ConvFrame

FpAdd ==
    /\ fp.op = "none"
    /\ fp' = [fp EXCEPT !.op = "fp_add",
                        !.out = fp_add(fp.a, fp.b, FP9_EXPWIDTH, FP9_PRECISION,
                                       FP9_PRECISION, fp.rm)]
    /\ ConvFrame

ArithNext == FpMultiply \/ FpAdd

ArithSpec == ArithInit /\ [][ArithNext]_vars

-----------------------------------------------------------------------------
(* Specification DecSpec: one OTC_Decoder.  dec.d is the DecodedInst of    *)
(* the last decode, dec.given the table handed to the decoder by the last  *)
(* init or load_isa_table (the table it holds is dec.dc.table_).           *)

(* Tables a caller loads: the one of the hot-swap test, one whose entries  *)
(* overlap (a funct3_mask of 0 ignores funct3, 4 compares its top bit), a  *)
(* reordering of it, and the empty table.                                  *)
CustomTable == << ISA_Entry("TCU_WMMA", 63, 1, 3, "TCU", 7) >>

OverlapTable ==
    << ISA_Entry("TCU_LOAD",  43, 1, 5, "TCU", 4),
       ISA_Entry("TCU_SFU",   43, 7, 0, "SFU", 0),
       ISA_Entry("STORE",     43, 2, 2, "LSU", 7),
       ISA_Entry("TCU_WMMA",  33, 1, 2, "TCU", 7) >>

ReorderedTable == << OverlapTable[3], OverlapTable[2], OverlapTable[1] >>

LoadableTables == {CustomTable, OverlapTable, ReorderedTable, <<>>}

DecOpcodes == {DEFAULT_ISA_TABLE[i].opcode : i \in 1 .. Len(DEFAULT_ISA_TABLE)}
              \cup {63, 43, 127}

(* The bits outside opcode and funct3: none, or rd = 5, rs1 = 10,          *)
(* rs2 = 20, funct7 = 45.                                                  *)
DecOperandBits == {0, Shl(5, 7) + Shl(10, 15) + Shl(20, 20) + Shl(45, 25)}

DecInsts ==
    {opc + Shl(f3, 12) + hi : opc \in DecOpcodes, f3 \in 0 .. 7, hi \in DecOperandBits}

DecInit ==
    /\ dec = [dc |-> NewDecoder, given |-> <<>>, op |-> "new", d |-> DecodedInst(0)]
    /\ sim = SimIdle /\ hist = SimIdle /\ ps = PsIdle /\ psh = PsIdle
    /\ dev = DevIdle /\ drv = DevIdle /\ fp = FpIdle

DecFrame == UNCHANGED <<sim, hist, ps, psh, dev, drv, fp>>

DecoderInit ==
    /\ dec' = [dec EXCEPT !.dc = OTC_Decoder_init(@), !.given = DEFAULT_ISA_TABLE,
                          !.op = "init"]
    /\ DecFrame

LoadIsaTable ==
    /\ \E table \in LoadableTables :
           dec' = [dec EXCEPT !.dc = OTC_Decoder_load_isa_table(@, table),
                              !.given = table, !.op = "load_isa_table"]
    /\ DecFrame

Decode ==
    /\ \E inst \in DecInsts :
           dec' = [dec EXCEPT !.d = OTC_Decoder_decode(dec.dc, inst), !.op = "decode"]
    /\ DecFrame

DecNext == DecoderInit \/ LoadIsaTable \/ Decode

DecSpec == DecInit /\ [][DecNext]_vars

-----------------------------------------------------------------------------
(* Properties of the TensorCoreSim specification.                          *)

Units == Rows \X Cols

FreshRun ==
    hist.lastOp = "run" /\ hist.atCall = 0

(* C1: after reset(), load_inputs() and run_to_completion() the pipelined  *)
(* d_fp22 equals, cell for cell and bit for bit, the d_fp22 that            *)
(* reference_matmul writes for the same inputs and rounding mode.           *)
C1_PipelineMatchesReference ==
    (FreshRun /\ AllDone(sim))
        => sim.d_fp22 = reference_matmul(sim.a_fp9, sim.b_fp9, sim.c_fp22, sim.rm)

(* C2: after reset() and load_inputs() no d_valid is true after any of     *)
(* ticks 1..10, every d_valid is true after tick 11, and                    *)
(* run_to_completion() called right after the load returns PIPELINE_DEPTH.  *)
C2_CompletesInPipelineDepth ==
    /\ (hist.sinceLoad >= 0 /\ hist.sinceLoad < PIPELINE_DEPTH)
           => \A u \in Units : ~sim.d_valid[u[1]][u[2]]
    /\ hist.sinceLoad >= PIPELINE_DEPTH => \A u \in Units : sim.d_valid[u[1]][u[2]]
    /\ FreshRun => hist.ret = PIPELINE_DEPTH

C2_Witness ==
    /\ FreshRun /\ hist.ret = PIPELINE_DEPTH
    /\ \A u \in Units : sim.d_valid[u[1]][u[2]]

TimedOut ==
    hist.lastOp = "run" /\ hist.ret = RunBudget /\ ~AllDone(sim)

Succeeded ==
    hist.lastOp = "run" /\ hist.ret > 0 /\ AllDone(sim)

(* C3: run_to_completion() reports a timeout apart from a success: the      *)
(* value it returns after using up its budget of 100 ticks without every    *)
(* d_valid set is returned by no successful run, and the job that timed     *)
(* out is not counted in jobs_completed.                                    *)
C3_TimeoutReportedDistinctly ==
    /\ Succeeded => hist.ret # RunBudget
    /\ TimedOut => sim.jobs_completed = hist.jobsAtCall

(* C4: once every d_valid is true, a tick() leaves every d_valid true and  *)
(* every d_fp22 unchanged.                                                  *)
C4_TickAfterCompletion ==
    [][(AllDone(sim) /\ hist'.nticks = hist.nticks + 1)
           => (AllDone(sim') /\ sim'.d_fp22 = sim.d_fp22)]_vars

(* A tick that streams a further token into units that hold their result. *)
C4_Witness ==
    /\ hist.lastOp = "tick" /\ hist.sinceLoad > PIPELINE_DEPTH
    /\ AllDone(sim) /\ sim.input_loaded

(* A tick after run_to_completion() has cleared input_loaded. *)
C4_WitnessIdle ==
    /\ hist.lastOp = "tick" /\ hist.sinceLoad > PIPELINE_DEPTH
    /\ AllDone(sim) /\ ~sim.input_loaded /\ sim.jobs_completed = 1

StageFlagsClear(p) ==
    /\ \A k \in 0 .. 7 : ~p.mul_pipe[k].valid1 /\ ~p.mul_pipe[k].valid2
                         /\ ~p.mul_results_valid[k]
    /\ \A a \in 0 .. 3 : ~p.add_L0[a].valid1 /\ ~p.add_L0[a].valid2
                         /\ ~p.add_L0_input_valid[a]
    /\ \A a \in 0 .. 1 : ~p.add_L1[a].valid1 /\ ~p.add_L1[a].valid2
                         /\ ~p.add_L1_input_valid[a]
    /\ ~p.add_L2.valid1 /\ ~p.add_L2.valid2 /\ ~p.add_L2_input_valid
    /\ ~p.final_add.valid1 /\ ~p.final_add.valid2 /\ ~p.final_add_input_valid
    /\ ~p.conv_valid

(* The job last loaded, run as the first job after the first reset of a    *)
(* newly constructed simulator.                                             *)
FirstJobRun(g, gb) ==
    run_to_completion(load_inputs(reset(NewTensorCoreSim(g, gb)),
                                  JobA(hist.job.seed), JobB(hist.job.seed),
                                  JobC(hist.job.seed), JobPrec(hist.job.seed),
                                  hist.job.rm))

(* C5: reset() clears every stage valid bit, every latch flag, conv_valid, *)
(* every d_valid and input_loaded and zeroes cycle_count; a job loaded and  *)
(* run after a reset gives the d_fp22 and the number of cycles the same     *)
(* job gives as the first job after the first reset.                        *)
C5_ResetRestoresInitialBehaviour ==
    /\ hist.lastOp = "reset" =>
          /\ \A u \in Units : StageFlagsClear(sim.dp[u[1]][u[2]]) /\ ~sim.d_valid[u[1]][u[2]]
          /\ ~sim.input_loaded
          /\ sim.cycle_count = 0
    /\ FreshRun =>
          \A g \in GarbageVals, gb \in BOOLEAN :
              /\ sim.d_fp22 = FirstJobRun(g, gb).st.d_fp22
              /\ hist.ret = FirstJobRun(g, gb).ret

C5_Witness ==
    FreshRun /\ hist.nresets > 1 /\ sim.jobs_completed = 1 /\ AllDone(sim)

(* Orders in which the units can be stepped: row-major, column-major and   *)
(* the reverse of each.                                                     *)
ColMajor == [n \in 1 .. (M * N) |-> <<(n - 1) % M, (n - 1) \div M>>]

Reversed(order) == [n \in 1 .. Len(order) |-> order[Len(order) + 1 - n]]

UnitOrders == {RowMajor, ColMajor, Reversed(RowMajor), Reversed(ColMajor)}

(* st with everything unit (i, j) is not said to read replaced by g. *)
Scramble(st, i, j, g) ==
    [st EXCEPT !.a_fp9 = [r \in Rows |-> IF r = i THEN st.a_fp9[r]
                                          ELSE [k \in 0 .. (K - 1) |-> g]],
               !.b_fp9 = [k \in 0 .. (K - 1) |->
                             [c \in Cols |-> IF c = j THEN st.b_fp9[k][c] ELSE g]],
               !.c_fp22 = [r \in Rows |-> [c \in Cols |->
                             IF r = i /\ c = j THEN st.c_fp22[r][c] ELSE g]],
               !.d_fp22 = [r \in Rows |-> [c \in Cols |->
                             IF r = i /\ c = j THEN st.d_fp22[r][c] ELSE g]],
               !.d_valid = [r \in Rows |-> [c \in Cols |->
                             IF r = i /\ c = j THEN st.d_valid[r][c] ELSE ~st.d_valid[r][c]]],
               !.dp = [r \in Rows |-> [c \in Cols |->
                             IF r = i /\ c = j THEN st.dp[r][c]
                             ELSE NewDotProductPipeline(g, TRUE)]],
               !.input_prec = PREC_FP4_E2M1,
               !.total_cycles = g,
               !.jobs_completed = g]

OwnCells(st, i, j) == <<st.dp[i][j], st.d_fp22[i][j], st.d_valid[i][j]>>

UnitStepIsLocal(i, j, stepped, scrambled) ==
    /\ stepped = [sim EXCEPT !.dp[i][j] = stepped.dp[i][j],
                             !.d_fp22[i][j] = stepped.d_fp22[i][j],
                             !.d_valid[i][j] = stepped.d_valid[i][j]]
    /\ OwnCells(stepped, i, j) = OwnCells(scrambled, i, j)

(* C6: the step of unit (i, j) reads only row i of A, column j of B,       *)
(* c[i][j] and the shared configuration and writes only dp[i][j],           *)
(* d_fp22[i][j] and d_valid[i][j]; tick() gives the same state in every     *)
(* order of the units.                                                      *)
C6_UnitsAreIndependent ==
    hist.nresets > 0 =>
        /\ \A u \in Units :
              UnitStepIsLocal(u[1], u[2], tick_dot_product(sim, u[1], u[2]),
                              tick_dot_product(Scramble(sim, u[1], u[2], 341), u[1], u[2]))
        /\ \A order \in UnitOrders : tick_in_order(sim, order) = tick(sim)

C6_Witness ==
    /\ hist.lastOp = "tick" /\ hist.sinceLoad = 5
    /\ \A u \in Units : sim.dp[u[1]][u[2]].add_L0[0].valid2
                        /\ sim.dp[u[1]][u[2]].mul_pipe[0].valid1

FirstValidAfter(valid, t) ==
    /\ valid => hist.sinceLoad >= t
    /\ hist.sinceLoad = t => valid

(* C7: after a reset and a load, slot 2 of the multipliers, of the level-0, *)
(* level-1 and level-2 adders and of the final adder is first valid after   *)
(* ticks 2, 4, 6, 8 and 10, and the converter after tick 11: a value        *)
(* crosses one register per tick.                                           *)
C7_OneRegisterPerTick ==
    hist.sinceLoad >= 0 =>
        \A u \in Units :
            /\ \A k \in 0 .. 7 :
                  /\ FirstValidAfter(sim.dp[u[1]][u[2]].mul_pipe[k].valid1, 1)
                  /\ FirstValidAfter(sim.dp[u[1]][u[2]].mul_pipe[k].valid2, 2)
            /\ \A a \in 0 .. 3 :
                  /\ FirstValidAfter(sim.dp[u[1]][u[2]].add_L0[a].valid1, 3)
                  /\ FirstValidAfter(sim.dp[u[1]][u[2]].add_L0[a].valid2, 4)
            /\ \A a \in 0 .. 1 :
                  /\ FirstValidAfter(sim.dp[u[1]][u[2]].add_L1[a].valid1, 5)
                  /\ FirstValidAfter(sim.dp[u[1]][u[2]].add_L1[a].valid2, 6)
            /\ FirstValidAfter(sim.dp[u[1]][u[2]].add_L2.valid1, 7)
            /\ FirstValidAfter(sim.dp[u[1]][u[2]].add_L2.valid2, 8)
            /\ FirstValidAfter(sim.dp[u[1]][u[2]].final_add.valid1, 9)
            /\ FirstValidAfter(sim.dp[u[1]][u[2]].final_add.valid2, 10)
            /\ FirstValidAfter(sim.dp[u[1]][u[2]].conv_valid, PIPELINE_DEPTH)

C7_Witness ==
    /\ hist.lastOp = "tick" /\ hist.sinceLoad = 10
    /\ \A u \in Units : sim.dp[u[1]][u[2]].final_add.valid2
                        /\ ~sim.dp[u[1]][u[2]].conv_valid

-----------------------------------------------------------------------------
(* Properties of the PipeStage2 specification.                             *)

PipeStalled(q, out_ready) == q.valid1 /\ q.valid2 /\ ~out_ready

(* C8: tick() latches the input into slot 1, and returns true, exactly     *)
(* when in_valid holds and not (valid1 and valid2 and not out_ready),      *)
(* which is in_valid and in_ready(out_ready); when the register is fully   *)
(* stalled tick() leaves data1, data2, valid1 and valid2 unchanged.        *)
C8_LatchIffInputAccepted ==
    psh.op = "tick" =>
        /\ psh.ret = (psh.in_valid /\ ~PipeStalled(psh.prev, psh.out_ready))
        /\ psh.ret = (psh.in_valid /\ PipeStage2_in_ready(psh.prev, psh.out_ready))
        /\ psh.ret => (ps.valid1 /\ ps.data1 = PipeApply(psh.compute1, psh.in_data))
        /\ ~psh.ret => ps.data1 = psh.prev.data1
        /\ PipeStalled(psh.prev, psh.out_ready) => ps = psh.prev

(* A valid input, different from what slot 1 holds, offered to a fully     *)
(* stalled register.                                                       *)
C8_Witness ==
    /\ psh.op = "tick"
    /\ psh.in_valid
    /\ PipeStalled(psh.prev, psh.out_ready)
    /\ PipeApply(psh.compute1, psh.in_data) # psh.prev.data1
    /\ ~psh.ret

-----------------------------------------------------------------------------
(* Properties of the Cmodel device specification.                          *)

(* The configurations C9 names: a dimension that is not positive, a K that  *)
(* is not a power of two, or a format tag that is not supported.            *)
NamedInvalid(cfg) ==
    \/ cfg.M <= 0 \/ cfg.K <= 0 \/ cfg.N <= 0
    \/ cfg.K \notin {Pow2(e) : e \in 0 .. 6}
    \/ cfg.type_ab \notin {TYPE_FP4, TYPE_FP8, TYPE_FP16}
    \/ cfg.type_cd \notin {TYPE_FP8, TYPE_FP16, TYPE_FP32}

(* C9: otc_configure with an invalid configuration returns -1 and changes   *)
(* neither the configured flag nor the TensorCoreUnit (so no tick has run), *)
(* and on a device that was never successfully configured otc_upload and    *)
(* otc_start return -1 and change nothing.                                  *)
C9_InvalidConfigurationChangesNothing ==
    [][ /\ \A cfg \in DevConfigs :
             (NamedInvalid(cfg) /\ OtcConfigureWith(cfg)) => (drv'.ret = -1 /\ dev' = dev)
        /\ (~dev.configured /\ (OtcUpload \/ OtcStart))
               => (drv'.ret = -1 /\ dev' = dev /\ ~drv'.aborted) ]_vars

(* An invalid configuration refused by a configured core that has one      *)
(* batch in flight and another one queued.                                  *)
C9_Witness ==
    /\ drv.op = "configure" /\ drv.ret = -1
    /\ dev.configured /\ dev.tc.active.valid /\ dev.tc.cycle > 0
    /\ dev.tc.input_fifo # <<>>

AcceptedIds == 0 .. (dev.tc.next_batch_id - 1)

NothingPending ==
    /\ dev.tc.input_fifo = <<>> /\ dev.tc.format_fifo = <<>>
    /\ ~dev.tc.active.valid
    /\ \A u \in 1 .. Len(dev.tc.dp_units) : dev.tc.dp_units[u].pipe = <<>>

AllCollected(br) ==
    /\ Len(br.d) = OTC_Config_total_dp(dev.tc.cfg)
    /\ \A k \in 1 .. Len(br.d) : br.d[k] # ZeroValue

CoreCompleted ==
    /\ dev.tc.state = "DONE"
    /\ AcceptedIds \subseteq drv.placed
    /\ \A k \in 1 .. Len(dev.tc.output_fifo) : AllCollected(dev.tc.output_fifo[k])
    /\ NothingPending

C10_WitnessTimeout ==
    /\ drv.op = "run" /\ drv.ret = -1
    /\ dev.tc.active.valid
    /\ dev.tc.active.results_collected >= OTC_Config_total_dp(dev.tc.cfg)

-----------------------------------------------------------------------------
(* Conversions (ConvSpec).                                                 *)

(* Two dyadic values denote the same host double.                          *)
SameValue(x, y) ==
    /\ x.k = y.k
    /\ x.k # "nan" => x.s = y.s
    /\ x.k = "fin" =>
           LET e == Min(x.exp, y.exp)
           IN  x.sig * Pow2(x.exp - e) = y.sig * Pow2(y.exp - e)

(* Exponent and mantissa fields of a pattern of the format fmt.            *)
ManWidth(fmt) ==
    CASE fmt = "fp16"     -> 10
      [] fmt = "fp13"     -> 7
      [] fmt = "fp22"     -> 13
      [] fmt = "fp8_e5m2" -> 2
      [] fmt = "fp4"      -> 1
      [] OTHER            -> 3

ExpWidth(fmt) ==
    CASE fmt = "fp22"     -> 8
      [] fmt = "fp8_e4m3" -> 4
      [] fmt = "fp4"      -> 2
      [] OTHER            -> 5

ExpField(fmt, x) == Low(Shr(x, ManWidth(fmt)), ExpWidth(fmt))

ManField(fmt, x) == Low(x, ManWidth(fmt))

SignField(fmt, x) == Bit(x, FormatWidth(fmt) - 1)

IsFinitePattern(fmt, x) == ExpField(fmt, x) # Pow2(ExpWidth(fmt)) - 1

IsSubnormalPattern(fmt, x) == ExpField(fmt, x) = 0 /\ ManField(fmt, x) # 0

IsNaNPattern(fmt, x) == ~IsFinitePattern(fmt, x) /\ ManField(fmt, x) # 0

IsInfPattern(fmt, x) == ~IsFinitePattern(fmt, x) /\ ManField(fmt, x) = 0

(* The real number a finite pattern of an IEEE-style format encodes, with  *)
(* bias 2^(ExpWidth-1) - 1.                                                *)
PatternValue(fmt, x) ==
    LET mw   == ManWidth(fmt)
        bias == Pow2(ExpWidth(fmt) - 1) - 1
        e    == ExpField(fmt, x)
        m    == ManField(fmt, x)
        s    == SignField(fmt, x)
    IN  IF e = 0 /\ m = 0 THEN DZero(s)
        ELSE IF e = 0 THEN DFin(s, m, 1 - bias - mw)
        ELSE DFin(s, Pow2(mw) + m, e - bias - mw)

RoundTripFormats == {"fp16", "fp8_e5m2", "fp8_e4m3"}

(* C11: for each external format (FP16, FP8 E5M2, FP8 E4M3) and every      *)
(* finite bit pattern x of it, widening x to FP22 and narrowing the result *)
(* back under RNE returns exactly x.                                       *)
C11_RoundTripThroughFP22 ==
    (/\ fp # FpIdle
     /\ fp.fmt \in RoundTripFormats
     /\ IsFinitePattern(fp.fmt, fp.x)
     /\ "out" \in fp.done
     /\ fp.rm = RNE)
    => fp.out = fp.x

RoundTripOfNonSubnormals ==
    (/\ fp # FpIdle
     /\ fp.fmt \in RoundTripFormats
     /\ IsFinitePattern(fp.fmt, fp.x)
     /\ ~IsSubnormalPattern(fp.fmt, fp.x)
     /\ "out" \in fp.done
     /\ fp.rm = RNE)
    => fp.out = fp.x

WideningFormats == {"fp9", "fp13", "fp16"}

IsNaN22(w) == Low(Shr(w, 13), 8) = 255 /\ Low(w, 13) # 0

Inf22(s) == Shl(s, 21) + Shl(255, 13)

(* What a widening of the pattern x of format fmt has to produce.          *)
WidenedCorrectly(fmt, x, w) ==
    IF IsNaNPattern(fmt, x) THEN IsNaN22(w)
    ELSE IF IsInfPattern(fmt, x) THEN w = Inf22(SignField(fmt, x))
    ELSE SameValue(fp22_to_double(w), PatternValue(fmt, x))

(* C20: fp9_to_fp22, fp13_to_fp22 and fp16_to_fp22 preserve the value of   *)
(* every finite input, subnormals included, keep the sign of a zero, map   *)
(* an infinity to the infinity of the same sign and every NaN to a NaN.    *)
C20_WideningPreservesValue ==
    (/\ fp # FpIdle
     /\ fp.fmt \in WideningFormats
     /\ "fp22" \in fp.done)
    => WidenedCorrectly(fp.fmt, fp.x, fp.fp22)

(* C20 and C11 without the subnormal inputs: these hold.                   *)
WideningOfNonSubnormals ==
    (/\ fp # FpIdle
     /\ fp.fmt \in WideningFormats
     /\ ~IsSubnormalPattern(fp.fmt, fp.x)
     /\ "fp22" \in fp.done)
    => WidenedCorrectly(fp.fmt, fp.x, fp.fp22)

-----------------------------------------------------------------------------
(* Arithmetic (ArithSpec).                                                 *)

IsFinite9(x) == Low(Shr(x, 3), 5) # 31

IsNaN9(x) == x \in FP9NaNs

IsInf9(x) == Low(Shr(x, 3), 5) = 31 /\ Low(x, 3) = 0

IsZero9(x) == Low(x, 8) = 0

IsQuietNaN9(x) == Low(Shr(x, 3), 5) = 31 /\ Bit(x, 2) = 1

(* C12: for every finite FP9 pattern x, fp_add(x, -x) under RNE is +0.     *)
C12_AddOfNegationIsPlusZero ==
    (/\ fp # FpIdle
     /\ fp.op = "fp_add"
     /\ fp.rm = RNE
     /\ IsFinite9(fp.a)
     /\ fp.b = fp9_negate(fp.a))
    => fp.out = 0

(* C12 for the operands whose exponent field is at most 5.                 *)
AddOfNegationSmallExponent ==
    (/\ fp # FpIdle
     /\ fp.op = "fp_add"
     /\ fp.rm = RNE
     /\ Low(Shr(fp.a, 3), 5) <= 5
     /\ fp.b = fp9_negate(fp.a))
    => fp.out = 0

(* C13: for every finite FP9 pattern x and every rounding mode,            *)
(* fp_multiply(x, 1.0) and fp_multiply(1.0, x) return exactly x.           *)
C13_MultiplyByOneIsIdentity ==
    (/\ fp # FpIdle
     /\ fp.op = "fp_multiply"
     /\ \/ (fp.b = FP9_ONE /\ IsFinite9(fp.a))
        \/ (fp.a = FP9_ONE /\ IsFinite9(fp.b)))
    => fp.out = (IF fp.b = FP9_ONE THEN fp.a ELSE fp.b)

C13_Witness ==
    /\ fp # FpIdle
    /\ fp.op = "fp_multiply"
    /\ fp.a = 3 /\ fp.b = FP9_ONE /\ fp.rm = RUP
    /\ fp.out = 3

(* C14: fp_multiply and fp_add return a quiet NaN whenever an operand is a *)
(* NaN, quiet or signaling, and for 0 x Inf and (+Inf) + (-Inf), for every *)
(* rounding mode and every other operand.                                  *)
C14_InvalidGivesQuietNaN ==
    (/\ fp # FpIdle
     /\ \/ (fp.op \in {"fp_multiply", "fp_add"} /\ (IsNaN9(fp.a) \/ IsNaN9(fp.b)))
        \/ (fp.op = "fp_multiply" /\ IsZero9(fp.a) /\ IsInf9(fp.b))
        \/ (fp.op = "fp_multiply" /\ IsInf9(fp.a) /\ IsZero9(fp.b))
        \/ (fp.op = "fp_add" /\ IsInf9(fp.a) /\ fp.b = fp9_negate(fp.a)))
    => IsQuietNaN9(fp.out)

C14_Witness ==
    /\ fp # FpIdle
    /\ fp.op = "fp_add"
    /\ fp.a = 248 /\ fp.b = 504 /\ fp.rm = RDN
    /\ fp.out = 252

-----------------------------------------------------------------------------
(* The Cmodel decoder (ConvSpec).                                          *)

(* The NaN of FP8 E4M3 as otc_fp.h reads it: S.1111.111.                   *)
IsNaNE4M3(x) == Low(x, 7) = 127

(* C15: FPConvert::fp8e4m3_to_f64 decodes every non-NaN E4M3 byte to its   *)
(* value with bias 7: (1 + m/8) * 2^(e-7) for e > 0, (m/8) * 2^-6 for      *)
(* e = 0, with the sign of the byte; 0x38 decodes to 1.0 and 0xB0 to -0.5. *)
C15_E4M3DecodesWithBias7 ==
    (/\ fp # FpIdle
     /\ fp.fmt = "fp8_e4m3"
     /\ "f64" \in fp.done
     /\ ~IsNaNE4M3(fp.x))
    => SameValue(fp.f64, PatternValue("fp8_e4m3", fp.x))

(* The inline decoder of otc_fp.h meets C15 on every byte.                 *)
InlineDecoderUsesBias7 ==
    (/\ fp # FpIdle
     /\ fp.fmt = "fp8_e4m3"
     /\ ~IsNaNE4M3(fp.x))
    => SameValue(FPConvert_fp8e4m3_to_f64_inline(fp.x), PatternValue("fp8_e4m3", fp.x))

(* What otc_fp.cpp computes instead: the E4M3 fields read as FP9 fields,   *)
(* with bias 15.                                                           *)
E4M3DecodedWithBias15 ==
    (/\ fp # FpIdle
     /\ fp.fmt = "fp8_e4m3"
     /\ "f64" \in fp.done
     /\ Low(fp.x, 7) # 0)
    => LET e == Low(Shr(fp.x, 3), 4)
           m == Low(fp.x, 3)
       IN  SameValue(fp.f64, DFin(Bit(fp.x, 7), IF e = 0 THEN m ELSE 8 + m,
                                  (IF e = 0 THEN 1 ELSE e) - 15 - 3))

-----------------------------------------------------------------------------
(* The decoder (DecSpec).                                                  *)

(* The entry e matches the word inst: same opcode, same funct3 in the bits *)
(* the entry's mask selects.                                               *)
EntryMatches(e, inst) ==
    /\ e.opcode = inst % 128
    /\ BitAnd((inst \div 4096) % 8, e.funct3_mask) = BitAnd(e.funct3, e.funct3_mask)

MatchingEntries(table, inst) == {i \in 1 .. Len(table) : EntryMatches(table[i], inst)}

FirstMatching(table, inst) ==
    CHOOSE i \in MatchingEntries(table, inst) :
        \A j \in MatchingEntries(table, inst) : i <= j

(* C16: decode(inst) is valid exactly when an entry of the table matches   *)
(* inst; op and unit are then those of the first matching entry in table   *)
(* order, otherwise valid = false, op = NOP, unit = NONE; the table is the *)
(* one given by the last load_isa_table (or init), so that encodings of an *)
(* earlier table alone decode as invalid.                                  *)
C16_DecodeFollowsTheTable ==
    (dec # DecIdle /\ dec.op = "decode")
    => IF MatchingEntries(dec.given, dec.d.raw) = {}
       THEN ~dec.d.valid /\ dec.d.op = "NOP" /\ dec.d.unit = "NONE"
       ELSE /\ dec.d.valid
            /\ dec.d.op = dec.given[FirstMatching(dec.given, dec.d.raw)].op
            /\ dec.d.unit = dec.given[FirstMatching(dec.given, dec.d.raw)].target

(* After init and load_isa_table(CustomTable), the old encoding of         *)
(* TCU_WMMA (opcode 0x21, funct3 1) has been decoded as invalid.           *)
C16_Witness ==
    /\ dec # DecIdle
    /\ dec.op = "decode"
    /\ dec.given = CustomTable
    /\ dec.d.raw = 33 + Shl(1, 12)
    /\ ~dec.d.valid

(* An instruction matching three overlapping entries took the first.       *)
C16_WitnessFirst ==
    /\ dec # DecIdle
    /\ dec.op = "decode"
    /\ dec.given = OverlapTable
    /\ Cardinality(MatchingEntries(OverlapTable, dec.d.raw)) = 2
    /\ dec.d.valid /\ dec.d.op = "TCU_LOAD"

-----------------------------------------------------------------------------
(* The dot-product unit, continued (Spec).                                 *)

(* C17: whenever the converter latch of a unit holds a value at a tick,    *)
(* the tick publishes that value to d_fp22[i][j], sets d_valid[i][j] and   *)
(* clears the latch, so that a later job on the same unit can publish its  *)
(* own result.                                                             *)
C17_ConverterLatchProtocol ==
    [][(hist'.nticks = hist.nticks + 1)
           => \A u \in Units :
                  sim.dp[u[1]][u[2]].conv_valid
                  => /\ sim'.d_fp22[u[1]][u[2]] = sim.dp[u[1]][u[2]].conv_fp22
                     /\ sim'.d_valid[u[1]][u[2]]
                     /\ ~sim'.dp[u[1]][u[2]].conv_valid]_vars

(* What the code does instead: a latch that holds a value keeps it across  *)
(* every tick and every load_inputs; only reset() empties it.              *)
ConverterLatchIsNeverCleared ==
    [][(\E u \in Units : sim.dp[u[1]][u[2]].conv_valid
                          /\ ~sim'.dp[u[1]][u[2]].conv_valid)
           => hist'.nresets = hist.nresets + 1]_vars

(* The valid bits of two stages that feed the same adder. *)
SameValid(q1, q2) == q1.valid1 = q2.valid1 /\ q1.valid2 = q2.valid2

SiblingsAgree(p) ==
    /\ \A k \in 0 .. 3 : /\ SameValid(p.mul_pipe[k], p.mul_pipe[k + 4])
                          /\ p.mul_results_valid[k] = p.mul_results_valid[k + 4]
    /\ \A a \in 0 .. 1 : SameValid(p.add_L0[2 * a], p.add_L0[2 * a + 1])
    /\ SameValid(p.add_L1[0], p.add_L1[1])

(* C18: at every tick boundary of a simulator that has been reset, sibling *)
(* stages of every unit have equal valid bits (mul k and mul k+4, L0[2a]   *)
(* and L0[2a+1], L1[0] and L1[1]), so no product or partial sum is dropped *)
(* or consumed twice at a hand-off.                                        *)
C18_SiblingStagesAgree ==
    hist.nresets > 0 => \A u \in Units : SiblingsAgree(sim.dp[u[1]][u[2]])

(* Both level-0 siblings and both level-1 siblings hold a partial sum, and *)
(* the multipliers hold the products of a later token.                     *)
C18_Witness ==
    /\ hist.lastOp = "tick"
    /\ sim.dp[0][0].add_L0[0].valid2 /\ sim.dp[0][0].add_L0[1].valid2
    /\ sim.dp[0][0].add_L1[0].valid2 /\ sim.dp[0][0].add_L1[1].valid2
    /\ sim.dp[0][0].mul_pipe[0].valid2 /\ sim.dp[0][0].mul_pipe[4].valid2

(* The hand-off itself: a tick that finds both siblings' slot 2 valid      *)
(* leaves their two values in slot 1 and in the operand latch of the adder *)
(* they feed; the input latches are empty at every tick boundary.          *)
HandOffTakesBothSiblings ==
    [][(hist'.nticks = hist.nticks + 1)
           => \A u \in Units :
                LET p == sim.dp[u[1]][u[2]]
                    q == sim'.dp[u[1]][u[2]]
                IN  /\ \A a \in 0 .. 3 :
                         (p.mul_results_valid[a] /\ p.mul_results_valid[a + 4])
                         => /\ q.add_L0[a].valid1
                            /\ q.add_L0[a].data1 = p.mul_results[a]
                            /\ q.add_L0_b[a] = p.mul_results[a + 4]
                    /\ \A a \in 0 .. 1 :
                         (p.add_L0[2 * a].valid2 /\ p.add_L0[2 * a + 1].valid2)
                         => /\ q.add_L1[a].valid1
                            /\ q.add_L1[a].data1 = p.add_L0[2 * a].data2
                            /\ q.add_L1_b[a] = p.add_L0[2 * a + 1].data2
                    /\ (p.add_L1[0].valid2 /\ p.add_L1[1].valid2)
                         => /\ q.add_L2.valid1
                            /\ q.add_L2.data1 = p.add_L1[0].data2
                            /\ q.add_L2_b = p.add_L1[1].data2
                    /\ \A a \in 0 .. 3 : ~q.add_L0_input_valid[a]
                    /\ \A a \in 0 .. 1 : ~q.add_L1_input_valid[a]
                    /\ ~q.add_L2_input_valid]_vars

-----------------------------------------------------------------------------
(* PipeStage2 as a buffer (PipeSpec).                                      *)

ValidSlots(q) == (IF q.valid1 THEN 1 ELSE 0) + (IF q.valid2 THEN 1 ELSE 0)

(* The tokens accepted and not yet taken are exactly the valid slots, the  *)
(* older one in slot 2.                                                    *)
SlotsHoldTheFifo ==
    /\ Len(psh.fifo) = ValidSlots(ps)
    /\ ps.valid2 => (psh.fifo[1].moved /\ psh.fifo[1].v = ps.data2)
    /\ ps.valid1 => /\ ~psh.fifo[Len(psh.fifo)].moved
                    /\ psh.fifo[Len(psh.fifo)].v = ps.data1

(* C19: a tick changes slot 2 only if valid2 was false or out_ready is     *)
(* true, and slot 1 only if the stage is not fully stalled; with a         *)
(* consumer that takes data2 exactly on the ticks where valid2 and         *)
(* out_ready hold, what it takes is the oldest accepted token not yet      *)
(* taken, 2 ticks or more after the tick that accepted it and exactly 2    *)
(* when out_ready held on every tick since, and the tokens not yet taken   *)
(* are the ones the two slots hold, in order.                              *)
C19_OrderPreservingBuffer ==
    /\ SlotsHoldTheFifo
    /\ psh.op = "tick" =>
          /\ (ps.data2 # psh.prev.data2 \/ ps.valid2 # psh.prev.valid2)
                => (~psh.prev.valid2 \/ psh.out_ready)
          /\ (ps.data1 # psh.prev.data1 \/ ps.valid1 # psh.prev.valid1)
                => ~PipeStalled(psh.prev, psh.out_ready)
          /\ psh.took =>
                /\ psh.before # <<>>
                /\ psh.prev.data2 = psh.before[1].v
                /\ psh.before[1].age + 1 >= 2
                /\ psh.before[1].rdy => psh.before[1].age + 1 = 2
          /\ ~psh.took => \A n \in 1 .. Len(psh.before) : psh.fifo[n].v \in
                              {psh.before[n].v, PipeApply(psh.compute2, psh.before[n].v)}

(* The consumer takes a token that waited behind a stalled one while a     *)
(* younger token sits in slot 1, and a new one is accepted on that tick.   *)
C19_Witness ==
    /\ psh.op = "tick" /\ psh.took /\ psh.ret
    /\ Len(psh.before) = 2
    /\ ~psh.before[1].rdy /\ psh.before[1].age = MaxAge
    /\ psh.before[2].v # psh.before[1].v
    /\ Len(psh.fifo) = 2

(* The consumer takes a token exactly 2 ticks after it was accepted. *)
C19_WitnessFreeFlow ==
    /\ psh.op = "tick" /\ psh.took
    /\ psh.before[1].rdy /\ psh.before[1].age = 1

-----------------------------------------------------------------------------
(* Input conversions (ConvSpec).                                           *)

InputFormats == {"fp4", "fp8_e4m3", "fp8_e5m2"}

Inf9(s) == Shl(s, 8) + Shl(31, 3)

(* The special patterns of a source format per the format table: FP8 E4M3  *)
(* has no infinity and the one NaN (e = 15, m = 7); FP4 and FP8 E5M2 keep  *)
(* the top exponent for Inf (m = 0) and NaN (m # 0).                       *)
InputIsNaN(fmt, x) ==
    IF fmt = "fp8_e4m3" THEN ExpField(fmt, x) = 15 /\ ManField(fmt, x) = 7
    ELSE IsNaNPattern(fmt, x)

InputIsInf(fmt, x) == fmt # "fp8_e4m3" /\ IsInfPattern(fmt, x)

(* What an input conversion of the pattern x of format fmt has to produce: *)
(* PatternValue reads an E4M3 pattern with e = 15 and m < 7 as the finite  *)
(* value (1 + m/8) * 2^8.                                                  *)
ConvertedCorrectly(fmt, x, y) ==
    IF InputIsNaN(fmt, x) THEN IsNaNPattern("fp9", y)
    ELSE IF InputIsInf(fmt, x) THEN y = Inf9(SignField(fmt, x))
    ELSE /\ IsFinitePattern("fp9", y)
         /\ SameValue(PatternValue("fp9", y), PatternValue(fmt, x))

(* C21: fp4_to_fp9, fp8_e4m3_to_fp9 and fp8_e5m2_to_fp9 preserve the value *)
(* of every finite source pattern, subnormals included, and classify the   *)
(* specials per the format table (E4M3: only e = 15, m = 7 is NaN, every   *)
(* other e = 15 pattern is finite; FP4: e = 3, m = 0 is Inf, m = 1 NaN).   *)
C21_InputConversionsPreserveValue ==
    (/\ fp # FpIdle
     /\ "fmt" \in DOMAIN fp
     /\ fp.fmt \in InputFormats
     /\ "fp9" \in fp.done)
    => ConvertedCorrectly(fp.fmt, fp.x, fp.fp9)

(* What holds: FP4 and FP8 E5M2 on every pattern, FP8 E4M3 on zeros,       *)
(* normals below e = 15 and the NaN (e = 15, m = 7).                       *)
InputConversionsOutsideE4M3Edges ==
    (/\ fp # FpIdle
     /\ "fmt" \in DOMAIN fp
     /\ fp.fmt \in InputFormats
     /\ "fp9" \in fp.done
     /\ fp.fmt = "fp8_e4m3" =>
            /\ ~IsSubnormalPattern(fp.fmt, fp.x)
            /\ (ExpField(fp.fmt, fp.x) = 15 => ManField(fp.fmt, fp.x) = 7))
    => ConvertedCorrectly(fp.fmt, fp.x, fp.fp9)

-----------------------------------------------------------------------------
(* Overflow of the output conversions (ConvSpec).                          *)

(* Rounding the significand sig to its bits above the low d in mode rm,    *)
(* for a value of sign s: the kept bits plus one when the mode rounds the  *)
(* magnitude up.                                                           *)
RoundedSig(sig, d, rm, s) ==
    LET q    == Shr(sig, d)
        rem  == Low(sig, d)
        half == Pow2(d - 1)
        up   == CASE rm = RNE -> rem > half \/ (rem = half /\ q % 2 = 1)
                  [] rm = RTZ -> FALSE
                  [] rm = RDN -> s = 1 /\ rem # 0
                  [] rm = RUP -> s = 0 /\ rem # 0
                  [] OTHER    -> rem >= half
    IN  q + B2N(up)

(* The largest finite exponent field the conversions produce. *)
TopExpField(fmt) == IF fmt = "fp8_e4m3" THEN 14 ELSE 30

(* The magnitude of the normal FP22 pattern x, rounded in mode rm to the   *)
(* precision of fmt with no bound on the exponent, exceeds the largest     *)
(* finite value (TopExpField, mantissa all ones) of fmt.                   *)
Overflows(fmt, x, rm) ==
    LET e    == ExpField("fp22", x) - 127
        top  == TopExpField(fmt) - (Pow2(ExpWidth(fmt) - 1) - 1)
        sig  == RoundedSig(8192 + ManField("fp22", x), 13 - ManWidth(fmt), rm,
                           SignField("fp22", x))
    IN  /\ ExpField("fp22", x) \in 1 .. 254
        /\ e > top \/ (e = top /\ sig = Pow2(ManWidth(fmt) + 1))

LargestFinite(fmt, s) ==
    Shl(s, FormatWidth(fmt) - 1) + Shl(TopExpField(fmt), ManWidth(fmt))
        + (Pow2(ManWidth(fmt)) - 1)

InfPattern(fmt, s) == Shl(s, FormatWidth(fmt) - 1) + Shl(31, ManWidth(fmt))

RoundsTowardsZero(rm, s) == rm = RTZ \/ (rm = RDN /\ s = 0) \/ (rm = RUP /\ s = 1)

(* C22: for every FP22 input and rounding mode, fp22_to_fp8_e4m3 never     *)
(* returns exponent field 15 and returns (sign, e = 14, m = 7) on          *)
(* overflow; fp22_to_fp8_e5m2 and fp22_to_fp16 return on overflow the      *)
(* largest finite value under RTZ, RDN with positive sign and RUP with     *)
(* negative sign and the signed Inf otherwise, also when the overflow      *)
(* comes from a rounding carry.                                            *)
C22_NarrowingOverflow ==
    (/\ fp # FpIdle
     /\ "to" \in DOMAIN fp
     /\ "out" \in fp.done)
    => /\ fp.to = "fp8_e4m3" => ExpField("fp8_e4m3", fp.out) # 15
       /\ Overflows(fp.to, fp.fp22, fp.rm) =>
             fp.out = IF fp.to = "fp8_e4m3" \/ RoundsTowardsZero(fp.rm, SignField("fp22", fp.fp22))
                      THEN LargestFinite(fp.to, SignField("fp22", fp.fp22))
                      ELSE InfPattern(fp.to, SignField("fp22", fp.fp22))

(* The conversions do not overflow anywhere else: a finite FP22 input that *)
(* does not overflow gives a finite result.                                *)
NoSpuriousOverflow ==
    (/\ fp # FpIdle
     /\ "to" \in DOMAIN fp
     /\ "out" \in fp.done
     /\ fp.to # "fp8_e4m3"
     /\ IsFinitePattern("fp22", fp.fp22)
     /\ ~Overflows(fp.to, fp.fp22, fp.rm))
    => IsFinitePattern(fp.to, fp.out)

(* -1.1111111111111 * 2^15 to FP16 under RDN: the carry of the rounding    *)
(* takes the result past the largest finite value, to -Inf.                *)
C22_Witness ==
    /\ fp # FpIdle /\ "to" \in DOMAIN fp /\ "out" \in fp.done
    /\ fp.fmt = "fp22" /\ fp.to = "fp16" /\ fp.rm = RDN
    /\ ExpField("fp22", fp.fp22) = 142 /\ ManField("fp22", fp.fp22) = 8191
    /\ SignField("fp22", fp.fp22) = 1
    /\ Overflows(fp.to, fp.fp22, fp.rm)
    /\ fp.out = InfPattern("fp16", 1)

(* 1.111 * 2^7 and a half to E4M3 under RNE: the carry saturates.          *)
C22_WitnessE4M3 ==
    /\ fp # FpIdle /\ "to" \in DOMAIN fp /\ "out" \in fp.done
    /\ fp.fmt = "fp22" /\ fp.to = "fp8_e4m3" /\ fp.rm = RNE
    /\ ExpField("fp22", fp.fp22) = 134 /\ ManField("fp22", fp.fp22) = 7680
    /\ Overflows(fp.to, fp.fp22, fp.rm)
    /\ fp.out = LargestFinite("fp8_e4m3", 0)

(* Overflow with the exponent alone past the range, positive, under RDN.   *)
C22_WitnessLargestFinite ==
    /\ fp # FpIdle /\ "to" \in DOMAIN fp /\ "out" \in fp.done
    /\ fp.fmt = "fp22" /\ fp.to = "fp8_e5m2" /\ fp.rm = RDN
    /\ ExpField("fp22", fp.fp22) = 143 /\ SignField("fp22", fp.fp22) = 0
    /\ fp.out = LargestFinite("fp8_e5m2", 0)

-----------------------------------------------------------------------------
(* Overflow of the FP9 arithmetic (ArithSpec).                             *)

(* A finite FP9 pattern is (-1)^s * Sig9 * 2^Exp9.                         *)
Sig9(x) == IF Low(Shr(x, 3), 5) = 0 THEN Low(x, 3) ELSE 8 + Low(x, 3)

Exp9(x) == IF Low(Shr(x, 3), 5) = 0 THEN -17 ELSE Low(Shr(x, 3), 5) - 18

Sign9(x) == Bit(x, 8)

(* Exact results as sign, integer n and exponent e: (-1)^s * n * 2^e.      *)
ExactProduct(a, b) ==
    [s |-> (Sign9(a) + Sign9(b)) % 2, n |-> Sig9(a) * Sig9(b), e |-> Exp9(a) + Exp9(b)]

(* The operand x on the exponent grid e0: an operand more than 8 binades   *)
(* below the larger one is replaced by one unit of the grid, which rounds  *)
(* the same way to four significant bits.                                  *)
OnGrid(x, e0) ==
    LET n == IF Exp9(x) >= e0 THEN Sig9(x) * Pow2(Exp9(x) - e0)
             ELSE IF Sig9(x) = 0 THEN 0 ELSE 1
    IN  IF Sign9(x) = 1 THEN 0 - n ELSE n

ExactSum(a, b) ==
    LET e0 == Max(Min(Exp9(a), Exp9(b)), Max(Exp9(a), Exp9(b)) - 8)
        v  == OnGrid(a, e0) + OnGrid(b, e0)
    IN  [s |-> IF v < 0 THEN 1 ELSE 0, n |-> IF v < 0 THEN 0 - v ELSE v, e |-> e0]

(* The exact result v, rounded to four significant bits in mode rm with no *)
(* bound on the exponent, exceeds the largest finite FP9 magnitude,        *)
(* 15 * 2^12.                                                              *)
RoundedOverflows(v, rm) ==
    LET d   == BitLen(v.n) - 4
        sig == IF d > 0 THEN RoundedSig(v.n, d, rm, v.s) ELSE v.n * Pow2(0 - d)
    IN  /\ v.n > 0
        /\ v.e + d > 12 \/ (v.e + d = 12 /\ sig = 16)

ExactResult(op, a, b) == IF op = "fp_multiply" THEN ExactProduct(a, b) ELSE ExactSum(a, b)

LargestFinite9(s) == Shl(s, 8) + Shl(30, 3) + 7

OverflowResult(rm, s) == IF RoundsTowardsZero(rm, s) THEN LargestFinite9(s) ELSE Inf9(s)

(* C23: for finite FP9 operands whose exactly rounded product (fp_multiply) *)
(* or sum (fp_add) exceeds the largest finite magnitude, the result is the *)
(* largest finite value with the result sign under RTZ, RDN with positive  *)
(* sign and RUP with negative sign, and the signed Inf otherwise; never a  *)
(* NaN, never a wrapped exponent.                                          *)
C23_ArithmeticOverflow ==
    (/\ fp # FpIdle
     /\ "op" \in DOMAIN fp
     /\ fp.op \in {"fp_multiply", "fp_add"}
     /\ IsFinite9(fp.a) /\ IsFinite9(fp.b)
     /\ RoundedOverflows(ExactResult(fp.op, fp.a, fp.b), fp.rm))
    => fp.out = OverflowResult(fp.rm, ExactResult(fp.op, fp.a, fp.b).s)

(* What holds.  When the exact result itself is 2^16 or more the claim's   *)
(* result is returned, and every overflow returns the largest finite value *)
(* or the infinity of the result sign.                                     *)
OverflowPastTheTopBinade ==
    (/\ fp # FpIdle
     /\ "op" \in DOMAIN fp
     /\ fp.op \in {"fp_multiply", "fp_add"}
     /\ IsFinite9(fp.a) /\ IsFinite9(fp.b)
     /\ RoundedOverflows(ExactResult(fp.op, fp.a, fp.b), RTZ))
    => fp.out = OverflowResult(fp.rm, ExactResult(fp.op, fp.a, fp.b).s)

OverflowIsNeverNaNOrWrapped ==
    (/\ fp # FpIdle
     /\ "op" \in DOMAIN fp
     /\ fp.op \in {"fp_multiply", "fp_add"}
     /\ IsFinite9(fp.a) /\ IsFinite9(fp.b)
     /\ RoundedOverflows(ExactResult(fp.op, fp.a, fp.b), fp.rm))
    => fp.out \in {LargestFinite9(ExactResult(fp.op, fp.a, fp.b).s),
                   Inf9(ExactResult(fp.op, fp.a, fp.b).s)}

-----------------------------------------------------------------------------
(* Infinite operands of fp_add (ArithSpec).                                *)

(* C24: fp_add with no NaN operand and an infinite operand, other than     *)
(* (+Inf) + (-Inf), returns the infinity with the sign of the infinite     *)
(* operand; with a NaN operand it returns a quiet NaN with sign bit 0.     *)
C24_AddOfInfinity ==
    (/\ fp # FpIdle
     /\ "op" \in DOMAIN fp
     /\ fp.op = "fp_add")
    => /\ (IsNaN9(fp.a) \/ IsNaN9(fp.b)) => (IsQuietNaN9(fp.out) /\ Sign9(fp.out) = 0)
       /\ (/\ ~IsNaN9(fp.a) /\ ~IsNaN9(fp.b)
           /\ IsInf9(fp.a) \/ IsInf9(fp.b)
           /\ ~(IsInf9(fp.a) /\ IsInf9(fp.b) /\ Sign9(fp.a) # Sign9(fp.b)))
          => fp.out = Inf9(IF IsInf9(fp.a) THEN Sign9(fp.a) ELSE Sign9(fp.b))

(* What holds: the NaN half of C24, and the infinity without its sign.     *)
AddOfInfinityIsPlusInfinity ==
    (/\ fp # FpIdle
     /\ "op" \in DOMAIN fp
     /\ fp.op = "fp_add")
    => /\ (IsNaN9(fp.a) \/ IsNaN9(fp.b)) => (IsQuietNaN9(fp.out) /\ Sign9(fp.out) = 0)
       /\ (/\ ~IsNaN9(fp.a) /\ ~IsNaN9(fp.b)
           /\ IsInf9(fp.a) \/ IsInf9(fp.b)
           /\ ~(IsInf9(fp.a) /\ IsInf9(fp.b) /\ Sign9(fp.a) # Sign9(fp.b)))
          => fp.out = Inf9(0)

-----------------------------------------------------------------------------
(* The FIFOs of the Cmodel core (DevSpec).                                 *)

InputFifoFull(t) == Len(t.input_fifo) >= t.cfg.input_fifo_depth

(* The upload put its batch at the back of the input FIFO. *)
UploadAccepted ==
    /\ Len(dev'.tc.input_fifo) = Len(dev.tc.input_fifo) + 1
    /\ dev'.tc.input_fifo[Len(dev'.tc.input_fifo)].id = dev.tc.next_batch_id

(* C25: the input FIFO never holds more than input_fifo_depth batches;     *)
(* enqueue_job on a full FIFO returns false and changes nothing; and       *)
(* otc_upload returns 0 if and only if its batch was accepted into the     *)
(* input FIFO.                                                             *)
C25_UploadReportsAcceptance ==
    [][ /\ Len(dev'.tc.input_fifo) <= dev'.tc.cfg.input_fifo_depth
        /\ \A raw \in Raws :
              InputFifoFull(dev.tc) => enqueue_job(dev.tc, raw) = [t |-> dev.tc, ok |-> FALSE]
        /\ OtcUpload => (drv'.ret = 0 <=> UploadAccepted) ]_vars

(* What holds: the bound, the refusal, and a return value that tells only  *)
(* whether the device is configured.                                       *)
InputFifoBoundedAndRefusing ==
    [][ /\ Len(dev'.tc.input_fifo) <= dev'.tc.cfg.input_fifo_depth
        /\ \A raw \in Raws :
              InputFifoFull(dev.tc) => enqueue_job(dev.tc, raw) = [t |-> dev.tc, ok |-> FALSE]
        /\ OtcUpload => /\ drv'.ret = (IF dev.configured THEN 0 ELSE -1)
                        /\ UploadAccepted <=> (dev.configured /\ ~InputFifoFull(dev.tc))
                        /\ ~UploadAccepted => dev' = dev ]_vars

(* An upload to a configured device with a full input FIFO: dropped, and   *)
(* reported as 0.                                                          *)
UploadDroppedReportedAsSuccess ==
    /\ drv.op = "upload" /\ drv.ret = 0
    /\ dev.configured /\ InputFifoFull(dev.tc)
    /\ dev.tc.next_batch_id = Len(dev.tc.input_fifo)
    /\ dev.tc.cycle = 0

(* A batch with all its M*N results collected is still in the active slot. *)
CompleteInActive(t) ==
    t.active.valid /\ t.active.results_collected >= OTC_Config_total_dp(t.cfg)

OutputFifoFull(t) == Len(t.output_fifo) >= t.cfg.output_fifo_depth

IsPrefix(f, g) == Len(f) <= Len(g) /\ SubSeq(g, 1, Len(f)) = f

UnitsIdle(t) == \A u \in 1 .. Len(t.dp_units) : ~DotProductUnit_busy(t.dp_units[u])

(* The tick that finds a complete batch and a full output FIFO: the batch   *)
(* stays as it is, nothing is activated or dispatched, nothing is pushed.   *)
HeldBack(t, n) ==
    /\ n.active = t.active
    /\ n.output_fifo = t.output_fifo
    /\ IsPrefix(t.format_fifo, n.format_fifo)
    /\ UnitsIdle(n)
    /\ n.stats.matrices_done = t.stats.matrices_done
    /\ n.state = "RUNNING"

(* The tick that finds a complete batch and room in the output FIFO. *)
PushedNow(t, n) ==
    /\ Len(n.output_fifo) = Len(t.output_fifo) + 1
    /\ SubSeq(n.output_fifo, 1, Len(t.output_fifo)) = t.output_fifo
    /\ n.output_fifo[Len(n.output_fifo)].id = t.active.id
    /\ n.output_fifo[Len(n.output_fifo)].d = t.active.output_d
    /\ Len(t.active.output_d) = t.cfg.M * t.cfg.N
    /\ ~n.active.valid
    /\ n.stats.matrices_done = t.stats.matrices_done + 1

(* A tick never loses the active batch: it is still active with what it    *)
(* had collected, or it is the newest entry of the output FIFO.            *)
KeptOrPushed(t, n) ==
    \/ /\ n.active.valid /\ n.active.id = t.active.id
       /\ n.active.results_collected >= t.active.results_collected
       /\ n.output_fifo = t.output_fifo
       /\ CompleteInActive(n) => OutputFifoFull(t)
    \/ /\ ~n.active.valid
       /\ Len(n.output_fifo) = Len(t.output_fifo) + 1
       /\ n.output_fifo[Len(n.output_fifo)].id = t.active.id

(* C26: the output FIFO never holds more than output_fifo_depth results; a *)
(* batch that completes while the output FIFO is full stays in the active  *)
(* slot with all M*N results, no other batch is activated or dispatched    *)
(* meanwhile, and it is pushed on the first later tick that finds room;    *)
(* matrices_done counts the pushed batches, once each.                     *)
C26_BackpressureKeepsTheBatch ==
    /\ Len(dev.tc.output_fifo) <= dev.tc.cfg.output_fifo_depth
    /\ dev.tc.stats.matrices_done = Cardinality(drv.placed)
    /\ (dev.tc.active.valid /\ dev.tc.state = "RUNNING")
          => KeptOrPushed(dev.tc, TensorCoreUnit_tick(dev.tc))
    /\ CompleteInActive(dev.tc) =>
          /\ dev.tc.state = "RUNNING"
          /\ OutputFifoFull(dev.tc)
                => HeldBack(dev.tc, TensorCoreUnit_tick(dev.tc))
          /\ ~OutputFifoFull(dev.tc)
                => PushedNow(dev.tc, TensorCoreUnit_tick(dev.tc))

(* The second batch was held back by the full FIFO and pushed after a pop. *)
C26_Witness ==
    /\ dev.tc.stats.output_backpressure_cycles > 0
    /\ dev.tc.stats.matrices_done = 2
    /\ drv.popped = <<0>>
    /\ Ids(dev.tc.output_fifo) = {1}

(* A complete batch waiting behind a full output FIFO. *)
C26_WitnessHeld ==
    /\ CompleteInActive(dev.tc) /\ OutputFifoFull(dev.tc)
    /\ dev.tc.stats.output_backpressure_cycles > 1

-----------------------------------------------------------------------------
(* Order of the batches through the Cmodel core (DevSpec).                 *)

IdsOf(fifo) == [k \in 1 .. Len(fifo) |-> fifo[k].id]

(* The ids inside the core, from the one nearest the exit to the newest. *)
IdsInCore(t) ==
    IdsOf(t.output_fifo) \o (IF t.active.valid THEN <<t.active.id>> ELSE <<>>)
        \o IdsOf(t.format_fifo) \o IdsOf(t.input_fifo)

(* C27: the ids returned by successive successful pop_output_result calls  *)
(* are strictly increasing, every one of them was accepted by enqueue_job  *)
(* before, and none skips an accepted id: with the ids still in the core,  *)
(* in their order towards the exit, they are the accepted ids 0, 1, ...,   *)
(* each once.                                                              *)
C27_BatchesLeaveInOrder ==
    /\ \A j, k \in 1 .. Len(drv.popped) : j < k => drv.popped[j] < drv.popped[k]
    /\ \A k \in 1 .. Len(drv.popped) :
          /\ drv.popped[k] \in 0 .. (dev.tc.next_batch_id - 1)
          /\ \A id \in 0 .. (drv.popped[k] - 1) : \E j \in 1 .. (k - 1) : drv.popped[j] = id
    /\ drv.popped \o IdsInCore(dev.tc) = [k \in 1 .. dev.tc.next_batch_id |-> k - 1]

(* Both accepted batches have been popped. *)
C27_Witness ==
    /\ drv.op = "pop" /\ drv.ret = 1
    /\ drv.popped = <<0, 1>>
    /\ dev.tc.next_batch_id = 2

(* Two results waited in the output FIFO and the older one was popped. *)
C27_WitnessQueued ==
    /\ drv.op = "pop" /\ drv.popped = <<0>>
    /\ IdsOf(dev.tc.output_fifo) = <<1>>
    /\ dev.tc.cfg.output_fifo_depth = 2

-----------------------------------------------------------------------------
(* Progress of the Cmodel core (LiveSpec).                                 *)

(* Ticks that suffice to drain the core when nothing holds a batch back. *)
DrainTicks == 8

(* run() with a budget of DrainTicks further cycles and no pop meanwhile. *)
RunUnpopped(t) == TensorCoreUnit_run(t, t.cycle + DrainTicks)

(* The batches in the core, results waiting in the output FIFO included. *)
Queued(t) == Len(IdsInCore(t))

(* C28: while the core is RUNNING and ticked, every batch in the input     *)
(* FIFO eventually appears in the output FIFO, provided a full output FIFO *)
(* is eventually popped; with no pop, run() reaches DONE when the queued   *)
(* batches are at most output_fifo_depth, and otherwise does not reach     *)
(* DONE whatever the budget.                                               *)
C28_EveryBatchComesOut ==
    /\ \A id \in 0 .. (MaxBatches - 1) :
          (dev.tc.state = "RUNNING" /\ id \in Ids(dev.tc.input_fifo))
              ~> (id \in Ids(dev.tc.output_fifo))
    /\ (dev.tc.state = "RUNNING" /\ Queued(dev.tc) <= dev.tc.cfg.output_fifo_depth)
          ~> (dev.tc.state = "DONE" \/ Queued(dev.tc) > dev.tc.cfg.output_fifo_depth)
    /\ [](dev.configured =>
            /\ Queued(dev.tc) <= dev.tc.cfg.output_fifo_depth
                  => RunUnpopped(dev.tc).state = "DONE"
            /\ Queued(dev.tc) > dev.tc.cfg.output_fifo_depth
                  => \A max_cycles \in RunBudgets \cup {dev.tc.cycle + DrainTicks} :
                        /\ TensorCoreUnit_run(dev.tc, max_cycles).state = "RUNNING"
                        /\ otc_run(dev, max_cycles).ret = -1)

(* The second batch waited behind the full output FIFO, the first result   *)
(* was popped, and the core pushed the second and finished.                *)
C28_Witness ==
    /\ dev.tc.state = "DONE"
    /\ dev.tc.stats.output_backpressure_cycles >= MaxHeld
    /\ drv.popped = <<0>>
    /\ IdsOf(dev.tc.output_fifo) = <<1>>

(* More batches than the output FIFO holds: the run ends RUNNING. *)
C28_WitnessNoRoom ==
    /\ drv.op = "run" /\ drv.ret = -1
    /\ Queued(dev.tc) > dev.tc.cfg.output_fifo_depth
    /\ HeldTick(dev.tc)
    /\ drv.popped = <<>>

-----------------------------------------------------------------------------
(* The assertion of start() and the budget of run() (DevSpec).             *)

(* C29: on a configured device, whatever the sequence of otc_upload,       *)
(* otc_start, otc_tick, otc_run and otc_ready, the assertion of            *)
(* TensorCoreUnit::start (state IDLE or DONE) holds whenever start is      *)
(* reached: otc_start is never executed while the core is RUNNING.         *)
C29_StartAssertionHolds ==
    /\ ~drv.aborted
    /\ dev.configured => otc_start(dev).asserted

(* What holds: only otc_start reaches start() with the core RUNNING;       *)
(* run() calls start() under the test the assertion makes.                 *)
OnlyOtcStartTripsTheAssertion ==
    /\ drv.aborted => (drv.op = "start" /\ dev.configured /\ dev.tc.state = "RUNNING")
    /\ otc_start(dev).asserted <=> (~dev.configured \/ dev.tc.state \in {"IDLE", "DONE"})
    /\ \A max_cycles \in RunBudgets :
          dev.tc.state = "RUNNING"
              => TensorCoreUnit_run(dev.tc, max_cycles) = run_ticks(dev.tc, max_cycles)

(* otc_start on a RUNNING core stopped the program. *)
StartWhileRunning ==
    drv.aborted /\ drv.op = "start" /\ dev.tc.state = "RUNNING" /\ dev.tc.cycle = 0

(* The ticks run() needs from t to reach DONE when no budget stops it, or  *)
(* more than DrainTicks if that many do not suffice.                       *)
RECURSIVE ticks_to_done(_, _)
ticks_to_done(t, n) ==
    IF t.state = "DONE" \/ n > DrainTicks THEN n
    ELSE ticks_to_done(TensorCoreUnit_tick(t), n + 1)

TicksNeeded(t) ==
    ticks_to_done(IF t.state \in {"IDLE", "DONE"} THEN TensorCoreUnit_start(t) ELSE t, 0)

TicksOfRun(t, max_cycles) == TensorCoreUnit_run(t, max_cycles).cycle - t.cycle

(* C30: the budget of run(max_cycles) applies per call: a call whose       *)
(* pending work needs n <= max_cycles ticks reaches DONE and otc_run       *)
(* returns 0, however many cycles earlier runs have executed since the     *)
(* last reset, and no call performs more than max_cycles ticks.            *)
C30_BudgetIsPerCall ==
    dev.configured =>
        \A max_cycles \in RunBudgets :
            /\ TicksOfRun(dev.tc, max_cycles) <= max_cycles
            /\ TicksNeeded(dev.tc) <= max_cycles
                  => /\ TensorCoreUnit_run(dev.tc, max_cycles).state = "DONE"
                     /\ otc_run(dev, max_cycles).ret = 0

(* What holds: the budget is a bound on cycle_, counted from the last      *)
(* reset.                                                                  *)
BudgetIsCumulative ==
    dev.configured =>
        \A max_cycles \in RunBudgets :
            /\ TicksOfRun(dev.tc, max_cycles)
                  = Min(TicksNeeded(dev.tc), Max(max_cycles - dev.tc.cycle, 0))
            /\ otc_run(dev, max_cycles).ret = 0
                  <=> TicksNeeded(dev.tc) <= Max(max_cycles - dev.tc.cycle, 0)

(* A second run whose work fits its budget, refused because the first run  *)
(* used the cycles up.                                                     *)
SecondRunOutOfBudget ==
    /\ drv.op = "run" /\ drv.ret = -1 /\ drv.max_cycles = ShortBudget
    /\ drv.popped = <<0>> /\ dev.tc.next_batch_id = 2
    /\ dev.tc.cycle = ShortBudget
    /\ TicksNeeded(dev.tc) <= ShortBudget

====
